---- MODULE Spec2Model ----
(***************************************************************************)
(* Tunnel lifecycle manager of device_sync (ssh_tunnel.py) together with   *)
(* the views that call it, as a state machine.                             *)
(*                                                                         *)
(* The manager's state is the table active_tunnels.  The operating system  *)
(* is modelled by the process table procs: every process has a name kind   *)
(* ("ssh" or "other"), a life status, and the local port it listens on.    *)
(* Each request thread executes connect / disconnect / listActive in the   *)
(* steps at which the code blocks (sleeps, sub-process calls), so that the *)
(* environment and other threads can act in between.                       *)
(***************************************************************************)
EXTENDS Integers, FiniteSets, Sequences, TLC

(* ------------------------------ bounds --------------------------------- *)
NumPorts == 2
MaxLaunch == 2
NumExt == 1
NumThreads == 2
MaxFields == 2
MaxDevices == 3
MaxListed == 1

(* ------------------------- program constants --------------------------- *)
max_attempts == 15
max_workers == 10
pid_attempts == 5
UntrackedPid == -1
DirectPid == 0

Instances == {"a", "b"}
Hosts == {"devm", "jump01"}
Ports == 1..NumPorts
NoPort == 0
Threads == 1..NumThreads
LaunchPids == 1..MaxLaunch
ExtPids == (MaxLaunch + 1)..(MaxLaunch + NumExt)
AllPids == LaunchPids \cup ExtPids

VARIABLES
    active_tunnels,   \* instance -> record (present = FALSE: no entry)
    use_tunnel,       \* instance -> tunnel-requirement flag of its config
    procs,            \* pid -> operating-system process
    pc,               \* thread -> position in the handler it executes
    a_inst,           \* thread -> instance_name argument
    a_port,           \* thread -> local_port argument
    a_host,           \* thread -> ssh_host argument
    l_pid,            \* thread -> local variable pid
    l_n,              \* thread -> loop counter (attempt)
    l_busy,           \* thread -> line 136 saw the port still in use
    h_conflict,       \* thread -> history: the process of another kind that
                      \* held the requested port when connect was called (0: none)
    result,           \* thread -> what the last call returned
    h_conn,           \* instance -> history: the endpoint established by the
                      \* last successful connect, until a disconnect is called
    s_pc,             \* sync check of one device: position of the check
    s_client,         \* the client class that runs it ("curl" or "native")
    s_reply,          \* what the request to the API came back with
    s_out,            \* the dict check_device_sync returned
    k_pc,             \* views.check_sync: position of the request
    k_inst,           \* its instance_name argument
    k_creds,          \* whether the instance's configuration holds credentials
    k_end,            \* the endpoint its client was created with
    k_client,         \* whether a client object was created
    k_reqs,           \* the number of API requests the client has sent
    k_n,              \* the number of devices the API listed
    k_results,        \* sync_results: the dicts of the devices checked so far
    k_ret,            \* the JSON document the view returned
    b_pc,             \* NSOClientCurl batch check: position of the call
    b_op,             \* the method that was called ("selected" or "all")
    b_listed,         \* what get_all_devices returned to it ("ok" or "failed")
    b_fut,            \* device -> state of the future of its check
    b_val,            \* device -> in_sync of the dict its check returned
    b_got,            \* device -> whether the loop has taken its future
    b_status,         \* device_status: the entries appended so far
    b_in,             \* in_sync_count
    b_out,            \* out_of_sync_count
    b_calls,          \* the number of device checks started
    b_ret,            \* the dict the call returned
    r_pc,             \* test_remote_reachability: position of the call
    r_host,           \* its ssh_host argument
    r_probe,          \* how the probe run through ssh ended
    r_out,            \* the dict it returned
    u_pc,             \* _is_port_in_use: position of the call
    u_port,           \* its port argument
    u_os,             \* the platform the manager runs on
    u_access,         \* what psutil.net_connections does for this user
    u_sock,           \* the state of the port: free, listening, or bound
                      \* without a listener
    u_conn,           \* how the test connection to the port ended
    u_out,            \* the value it returned
    q_pc,             \* _kill_process: position of the call
    q_pid,            \* its pid argument
    q_proc,           \* the process with that pid
    q_sent,           \* the signals sent to it so far
    q_grace,          \* whether the wait ran to its timeout
    q_err             \* the exception caught inside the call ("none")

\* the state of the tunnel manager and of the sync check
tunnelvars == <<active_tunnels, use_tunnel, procs, pc, a_inst, a_port, a_host,
                l_pid, l_n, l_busy, h_conflict, result, h_conn>>
probevars == <<s_pc, s_client, s_reply, s_out>>
viewvars == <<k_pc, k_inst, k_creds, k_end, k_client, k_reqs, k_n, k_results, k_ret>>
batchvars == <<b_pc, b_op, b_listed, b_fut, b_val, b_got, b_status, b_in, b_out, b_calls, b_ret>>
reachvars == <<r_pc, r_host, r_probe, r_out>>
portvars == <<u_pc, u_port, u_os, u_access, u_sock, u_conn, u_out>>
killvars == <<q_pc, q_pid, q_proc, q_sent, q_grace, q_err>>
helpervars == <<reachvars, portvars, killvars>>
syncvars == <<probevars, viewvars, batchvars, helpervars>>

vars == <<active_tunnels, use_tunnel, procs, pc, a_inst, a_port, a_host,
          l_pid, l_n, l_busy, h_conflict, result, h_conn,
          s_pc, s_client, s_reply, s_out,
          k_pc, k_inst, k_creds, k_end, k_client, k_reqs, k_n, k_results, k_ret,
          b_pc, b_op, b_listed, b_fut, b_val, b_got, b_status, b_in, b_out, b_calls, b_ret,
          r_pc, r_host, r_probe, r_out,
          u_pc, u_port, u_os, u_access, u_sock, u_conn, u_out,
          q_pc, q_pid, q_proc, q_sent, q_grace, q_err>>

(* ------------------------------ records -------------------------------- *)
NoRec == [present |-> FALSE, pid |-> 0, local_port |-> NoPort, direct |-> FALSE]
TunnelRec(pid, port) ==
    [present |-> TRUE, pid |-> pid, local_port |-> port, direct |-> FALSE]
\* a direct record that claims a local port
DirectRecWithPort ==
    [present |-> TRUE, pid |-> DirectPid, local_port |-> 1, direct |-> TRUE]
DirectRec ==
    [present |-> TRUE, pid |-> DirectPid, local_port |-> NoPort, direct |-> TRUE]

\* kind: the process name; listen: the local port it is bound to; inst, want:
\* the forward it was launched for; cmd: its command line shows the tunnel spec
NoProc == [kind |-> "none", st |-> "none", listen |-> NoPort,
           inst |-> "none", want |-> NoPort, cmd |-> FALSE]
NewSsh(inst, port, listen, cmd) ==
    [kind |-> "ssh", st |-> "alive", listen |-> listen,
     inst |-> inst, want |-> port, cmd |-> cmd]
NewExt(kind, port) == [kind |-> kind, st |-> "alive", listen |-> port,
                       inst |-> "none", want |-> port, cmd |-> FALSE]

NoResult == [success |-> FALSE, msg |-> "none", pid |-> 0, local_port |-> NoPort]

\* an endpoint of the API: the instance's own address (direct), or localhost
\* at a local port
NoEnd == [set |-> FALSE, direct |-> FALSE, port |-> NoPort]
DirectEnd == [set |-> TRUE, direct |-> TRUE, port |-> NoPort]
LocalEnd(port) == [set |-> TRUE, direct |-> FALSE, port |-> port]
Ret(ok, msg, pid, port) ==
    [success |-> ok, msg |-> msg, pid |-> pid, local_port |-> port]

(* --------------------- port registry (pure helpers) -------------------- *)
Alive(pr, p) == p \in AllPids /\ pr[p].st = "alive"

\* _is_process_running: pid <= 0 is never running
IsProcessRunning(pr, pid) == pid > 0 /\ Alive(pr, pid)

\* _is_port_in_use: some connection has the port as its local port (the
\* port None of a direct record is the local port of no connection)
IsPortInUse(pr, port) ==
    port # NoPort /\ \E p \in AllPids : Alive(pr, p) /\ pr[p].listen = port

\* owners of a port as psutil.net_connections / lsof report them
OwnersOf(pr, port) ==
    {p \in AllPids : port # NoPort /\ Alive(pr, p) /\ pr[p].listen = port}

\* _find_tunnel_pid: ssh processes whose command line holds the tunnel spec
CmdlineMatches(pr, inst, port) ==
    {p \in AllPids : Alive(pr, p) /\ pr[p].kind = "ssh" /\ pr[p].cmd
                     /\ pr[p].inst = inst /\ pr[p].want = port}

\* a process that is gone: its name and how it ended are remembered
Gone(proc, how) == [NoProc EXCEPT !.kind = proc.kind, !.st = how]

\* _kill_process when the signal is delivered
Terminated(pr, pid) ==
    IF pid > 0 /\ Alive(pr, pid)
    THEN [pr EXCEPT ![pid] = Gone(pr[pid], "killed")]
    ELSE pr

\* no signal is sent at all
KillProcessSkipped(pr, pid) == {pr}

\* _kill_process: no-op for pid <= 0 or a dead process; AccessDenied (a
\* process of another owner) is logged and swallowed, leaving it running
KillProcess(pr, pid) ==
    IF pid > 0 /\ Alive(pr, pid) /\ pr[pid].kind = "other"
    THEN {Terminated(pr, pid), pr}
    ELSE {Terminated(pr, pid)}

\* _kill_tunnel_on_port: kills the owners of the port whose name holds "ssh"
SshOwners(pr, port) == {p \in OwnersOf(pr, port) : pr[p].kind = "ssh"}

\* every running ssh process is killed, whatever port it holds
KillEveryTunnel(pr, port) ==
    [p \in AllPids |->
        IF Alive(pr, p) /\ pr[p].kind = "ssh" THEN Gone(pr[p], "killed") ELSE pr[p]]

KillTunnelOnPort(pr, port) ==
    [p \in AllPids |->
        IF p \in SshOwners(pr, port)
        THEN Gone(pr[p], "killed")
        ELSE pr[p]]

\* the process not named ssh that is bound to the port, 0 if there is none
ForeignOwner(pr, port) ==
    IF \E p \in OwnersOf(pr, port) : pr[p].kind = "other"
    THEN CHOOSE p \in OwnersOf(pr, port) : pr[p].kind = "other"
    ELSE 0

FreeLaunchPids(pr) == {p \in LaunchPids : pr[p].kind = "none"}

(* ------------------- sync check of a device (pure part) ---------------- *)
\* the values of the result field that are told apart, and no value at all
StatusValues == {"in-sync", "locked", "out-of-sync", "weird-value"}

\* a response body is the sequence of its fields; a field's value is a
\* string (quoted) or something else (a number, null, an object)
Fields == [key : {"result", "other"}, val : StatusValues \cup {""}, quoted : BOOLEAN]
Bodies == UNION {[1..n -> Fields] : n \in 0..MaxFields}

\* how the request ended: answered, answered with the connection kept open
\* (curl exit code 28), refused, timed out, or an exception of the call
Outcomes == {"ok", "late", "refused", "timeout", "raised"}
HttpOk == 200
HttpError == 500

\* what can come back: an error document of the API (status other than 200)
\* carries no result field; json tells whether the body parses as JSON
Replies ==
    {r \in [outcome : Outcomes, status : {HttpOk, HttpError}, json : BOOLEAN,
            body : Bodies] :
        r.status # HttpOk => \A k \in 1..Len(r.body) : r.body[k].key # "result"}
NoReply == [outcome |-> "raised", status |-> HttpError, json |-> FALSE, body |-> <<>>]

\* the dict check_device_sync returns: whether it has the key in_sync, the
\* value of that key, and the status string the verdict was taken from
SyncDict(has, verdict, status) ==
    [has_in_sync |-> has, in_sync |-> verdict, status |-> status]
NoDict == SyncDict(FALSE, FALSE, "none")

\* NSOClientCurl._curl_request: success needs exit code 0 or 28 and output
CurlRequest(r) ==
    IF r.outcome \in {"ok", "late"} /\ r.body # <<>>
    THEN [success |-> TRUE, data |-> r.body]
    ELSE [success |-> FALSE, data |-> <<>>]

\* re.search(r'"result":\s*"([^"]+)"', data): the first result field whose
\* value is a non-empty string; 0 if there is none
ResultMatch(data) ==
    LET hits == {k \in 1..Len(data) : /\ data[k].key = "result"
                                      /\ data[k].quoted
                                      /\ data[k].val # ""}
    IN IF hits = {} THEN 0 ELSE CHOOSE k \in hits : \A j \in hits : k <= j

\* an unparsable response counted as in sync
CurlCheckDeviceSyncOptimistic(r) ==
    LET got == CurlRequest(r)
        m == ResultMatch(got.data)
    IN IF ~got.success THEN SyncDict(TRUE, FALSE, "none")
       ELSE IF m # 0 THEN SyncDict(TRUE, got.data[m].val # "out-of-sync", got.data[m].val)
       ELSE SyncDict(TRUE, TRUE, "none")

\* NSOClientCurl.check_device_sync
CurlCheckDeviceSync(r) ==
    LET got == CurlRequest(r)
        m == ResultMatch(got.data)
    IN IF ~got.success THEN SyncDict(TRUE, FALSE, "none")
       ELSE IF m # 0 THEN SyncDict(TRUE, got.data[m].val # "out-of-sync", got.data[m].val)
       ELSE SyncDict(TRUE, FALSE, "none")

\* data.get('tailf-ncs:output', {}).get('result', 'unknown'): the value of
\* the last result field of the parsed document
JsonResult(data) ==
    LET hits == {k \in 1..Len(data) : data[k].key = "result"}
        last == CHOOSE k \in hits : \A j \in hits : j <= k
    IN IF hits = {} THEN "unknown"
       ELSE IF data[last].quoted THEN data[last].val
       ELSE "not-a-string"

\* NSOClient.check_device_sync: an exception of the request or of
\* response.json(), or a status other than 200, gives a dict without in_sync
NativeCheckDeviceSync(r) ==
    IF r.outcome # "ok" \/ r.status # HttpOk \/ ~r.json
    THEN NoDict
    ELSE SyncDict(TRUE, JsonResult(r.body) = "in-sync", JsonResult(r.body))

\* r.get('in_sync') / sync_status.get('in_sync', False) of the callers
InSync(out) == out.has_in_sync /\ out.in_sync

\* the document a sync request returns: success, the counts, a message
\* (stats: whether it carries the counts at all)
Summary(ok, msg, stats, total, nin, nout) ==
    [success |-> ok, msg |-> msg, stats |-> stats, total |-> total,
     in_sync |-> nin, out_of_sync |-> nout]
NoSummary == Summary(FALSE, "none", FALSE, 0, 0, 0)
Failure(msg) == Summary(FALSE, msg, FALSE, 0, 0, 0)

\* the answers of the API to the check of one device that are told apart:
\* a proper answer for each result value, an error document, no answer
Answer(v) ==
    [outcome |-> "ok", status |-> HttpOk, json |-> TRUE,
     body |-> <<[key |-> "result", val |-> v, quoted |-> TRUE]>>]
ErrorAnswer == [outcome |-> "ok", status |-> HttpError, json |-> TRUE, body |-> <<>>]
Unanswered == [outcome |-> "refused", status |-> HttpError, json |-> FALSE, body |-> <<>>]
DeviceReplies == {Answer(v) : v \in StatusValues} \cup {ErrorAnswer, Unanswered}

\* the dict a batch check of NSOClientCurl returns: the summary and the
\* list under the key devices
Doc(sum, devs) == [sum |-> sum, devices |-> devs]
NoDoc == Doc(NoSummary, <<>>)

(* ------------- SSHTunnelManager.test_remote_reachability (pure) -------- *)
\* how the probe (ssh <host> 'nc -zv -w3 ip port 2>&1') can end: it exits with
\* a status and output, subprocess.run times out, or it raises; of the
\* output only the words the code looks for are told apart
ExitCodes == {0, 1, 255}
Probes ==
    {pr \in [end : {"exit", "timeout", "raised"}, code : ExitCodes,
             refused : BOOLEAN, timed : BOOLEAN] :
        pr.end # "exit" => (pr.code = 0 /\ ~pr.refused /\ ~pr.timed)}
NoProbe == [end |-> "raised", code |-> 0, refused |-> FALSE, timed |-> FALSE]

\* the dict the method returns
Verdict(ok, msg) == [reachable |-> ok, msg |-> msg]
NoVerdict == Verdict(FALSE, "none")

\* the output is searched for the timeout words first
ReachabilityTimedFirst(pr) ==
    IF pr.end = "timeout" THEN Verdict(FALSE, "probe_timeout")
    ELSE IF pr.end = "raised" THEN Verdict(FALSE, "error")
    ELSE IF pr.code = 0 THEN Verdict(TRUE, "reachable")
    ELSE IF pr.timed THEN Verdict(FALSE, "timed_out")
    ELSE IF pr.refused THEN Verdict(FALSE, "refused")
    ELSE Verdict(FALSE, "cannot_reach")

\* lines 43-87: exit status 0 is reachable; otherwise the message is chosen
\* by the words refused, then timeout / timed out, in the output; a
\* TimeoutExpired and any other exception are turned into a result
Reachability(pr) ==
    IF pr.end = "timeout" THEN Verdict(FALSE, "probe_timeout")
    ELSE IF pr.end = "raised" THEN Verdict(FALSE, "error")
    ELSE IF pr.code = 0 THEN Verdict(TRUE, "reachable")
    ELSE IF pr.refused THEN Verdict(FALSE, "refused")
    ELSE IF pr.timed THEN Verdict(FALSE, "timed_out")
    ELSE Verdict(FALSE, "cannot_reach")

(* ----------------- SSHTunnelManager._is_port_in_use (pure) ------------- *)
Platforms == {"Linux", "Darwin", "Windows"}

\* psutil.net_connections: returns the list, raises AccessDenied, or raises
\* something else
Accesses == {"ok", "denied", "error"}

\* the port: nothing is bound to it, a listener is bound to it, or a socket
\* that does not listen is bound to it
SockStates == {"free", "listening", "bound"}

\* how sock.connect_ex(('localhost', port)) can end for a port in that state:
\* only a listener accepts, and a listener that does not accept in time
\* lets the 0.5 s timeout pass
ConnectEnds(sock) ==
    IF sock = "listening" THEN {"connected", "timeout", "raised"}
    ELSE {"refused", "raised"}

\* the value connect_ex returns: 0, or the platform's errno (ECONNREFUSED is
\* 111 on Linux, 61 on macOS, 10061 on Windows; EAGAIN after the timeout)
ConnectEx(os, end) ==
    IF end = "connected" THEN 0
    ELSE IF end = "refused"
    THEN (IF os = "Linux" THEN 111 ELSE IF os = "Darwin" THEN 61 ELSE 10061)
    ELSE (IF os = "Linux" THEN 11 ELSE IF os = "Darwin" THEN 35 ELSE 10035)

\* sock2.bind(('localhost', port)) succeeds exactly on a free port
BindSucceeds(sock) == sock = "free"

\* lines 587-594: whether the list of connections has one with this local
\* port: a listener is listed, a free port is not, a socket that is bound
\* and nothing more is listed on some platforms only
Enumerated(sock) ==
    IF sock = "listening" THEN {TRUE}
    ELSE IF sock = "free" THEN {FALSE}
    ELSE BOOLEAN

\* lines 600-629: the fallback after a failed enumeration: an exception of
\* the connection test gives False; a connection that succeeds or is refused
\* (61, 111) gives True; otherwise the bind test decides
SocketFallback(os, sock, end) ==
    IF end = "raised" THEN FALSE
    ELSE IF ConnectEx(os, end) = 0 THEN TRUE
    ELSE IF ConnectEx(os, end) = 61 THEN TRUE
    ELSE IF ConnectEx(os, end) = 111 THEN TRUE
    ELSE ~BindSucceeds(sock)

(* ------------------------- instance configuration --------------------- *)
\* the names a request can carry: the configured instances and another one
InstanceNames == Instances \cup {"zz"}

\* NSO_INSTANCES[...]['local_port']: every instance has a local port of its own
ConfigPort(inst) == IF inst = "a" THEN 1 ELSE 2

(* ------------------------------- Init ---------------------------------- *)
Init ==
    /\ active_tunnels = [i \in Instances |-> NoRec]
    /\ use_tunnel \in [Instances -> BOOLEAN]
    /\ procs = [p \in AllPids |-> NoProc]
    /\ pc = [t \in Threads |-> "idle"]
    /\ a_inst = [t \in Threads |-> "a"]
    /\ a_port = [t \in Threads |-> NoPort]
    /\ a_host = [t \in Threads |-> "devm"]
    /\ l_pid = [t \in Threads |-> 0]
    /\ l_n = [t \in Threads |-> 0]
    /\ l_busy = [t \in Threads |-> FALSE]
    /\ h_conflict = [t \in Threads |-> 0]
    /\ result = [t \in Threads |-> NoResult]
    /\ s_pc = "idle"
    /\ s_client = "curl"
    /\ s_reply = NoReply
    /\ s_out = NoDict
    /\ h_conn = [i \in Instances |-> NoEnd]
    /\ k_pc = "idle"
    /\ k_inst = "a"
    /\ k_creds = FALSE
    /\ k_end = NoEnd
    /\ k_client = FALSE
    /\ k_reqs = 0
    /\ k_n = 0
    /\ k_results = <<>>
    /\ k_ret = NoSummary
    /\ b_pc = "idle"
    /\ b_op = "none"
    /\ b_listed = "none"
    /\ b_fut = <<>>
    /\ b_val = <<>>
    /\ b_got = <<>>
    /\ b_status = <<>>
    /\ b_in = 0
    /\ b_out = 0
    /\ b_calls = 0
    /\ b_ret = NoDoc
    /\ r_pc = "idle"
    /\ r_host = "devm"
    /\ r_probe = NoProbe
    /\ r_out = NoVerdict
    /\ u_pc = "idle"
    /\ u_port = NoPort
    /\ u_os = "Linux"
    /\ u_access = "ok"
    /\ u_sock = "free"
    /\ u_conn = "none"
    /\ u_out = FALSE
    /\ q_pc = "idle"
    /\ q_pid = 0
    /\ q_proc = "absent"
    /\ q_sent = <<>>
    /\ q_grace = FALSE
    /\ q_err = "none"

(* --------------------------- call and return --------------------------- *)
\* positions of create_tunnel before the forwarding process is launched
PreLaunch == {"ct_check", "ct_kill", "ct_del", "reclaim", "recheck",
              "cm_check", "launch_f", "launch_popen"}

\* a launch needs a process id the bounded process table can still give out
CanLaunch(t) ==
    Cardinality(FreeLaunchPids(procs)) >
        Cardinality({u \in Threads \ {t} : pc[u] \in PreLaunch})

ReturnLocals(t, res) ==
    /\ pc' = [pc EXCEPT ![t] = "idle"]
    /\ result' = [result EXCEPT ![t] = res]
    /\ a_inst' = [a_inst EXCEPT ![t] = "a"]
    /\ a_port' = [a_port EXCEPT ![t] = NoPort]
    /\ a_host' = [a_host EXCEPT ![t] = "devm"]
    /\ l_pid' = [l_pid EXCEPT ![t] = 0]
    /\ l_n' = [l_n EXCEPT ![t] = 0]
    /\ l_busy' = [l_busy EXCEPT ![t] = FALSE]
    /\ h_conflict' = [h_conflict EXCEPT ![t] = 0]
    /\ UNCHANGED syncvars

\* the endpoint a returning call has established for its instance
Linked(h, inst, res) ==
    IF res.success /\ res.msg \in {"created", "already_active"}
    THEN [h EXCEPT ![inst] = LocalEnd(res.local_port)]
    ELSE h

Return(t, res) ==
    /\ h_conn' = Linked(h_conn, a_inst[t], res)
    /\ ReturnLocals(t, res)

Goto(t, where) ==
    /\ pc' = [pc EXCEPT ![t] = where]
    /\ UNCHANGED <<a_inst, a_port, a_host, h_conflict, result, h_conn>>
    /\ UNCHANGED syncvars

\* the loop counter and the found pid of a thread
SetLocals(t, pid, n) ==
    /\ l_pid' = [l_pid EXCEPT ![t] = pid]
    /\ l_n' = [l_n EXCEPT ![t] = n]

(* ------------------------- views.connect_instance ---------------------- *)
\* direct access: the view writes the record itself and returns
ConnectDirect(t, inst) ==
    /\ pc[t] = "idle"
    /\ ~use_tunnel[inst]
    /\ active_tunnels' = [active_tunnels EXCEPT ![inst] = DirectRec]
    /\ h_conn' = [h_conn EXCEPT ![inst] = DirectEnd]
    /\ ReturnLocals(t, Ret(TRUE, "direct", 0, NoPort))
    /\ UNCHANGED <<use_tunnel, procs>>

\* lines 39-45: a name that is not configured is answered at once
ConnectUnknown(t) ==
    /\ pc[t] = "idle"
    /\ Return(t, Ret(FALSE, "unknown_instance", 0, NoPort))
    /\ UNCHANGED <<active_tunnels, use_tunnel, procs>>

\* tunnel needed: the view calls create_tunnel(instance_name, local_port, ssh_host)
ConnectCall(t, inst, port, host) ==
    /\ pc[t] = "idle"
    /\ use_tunnel[inst]
    /\ CanLaunch(t)
    /\ pc' = [pc EXCEPT ![t] = "ct_check"]
    /\ a_inst' = [a_inst EXCEPT ![t] = inst]
    /\ a_port' = [a_port EXCEPT ![t] = port]
    /\ a_host' = [a_host EXCEPT ![t] = host]
    /\ result' = [result EXCEPT ![t] = NoResult]
    /\ h_conflict' = [h_conflict EXCEPT ![t] = ForeignOwner(procs, port)]
    /\ UNCHANGED <<active_tunnels, use_tunnel, procs, l_pid, l_n, l_busy, h_conn>>
    /\ UNCHANGED syncvars

(* --------------------- SSHTunnelManager.create_tunnel ------------------ *)
\* the comparison of the stored port with the requested port left out
AlreadyActiveAnyPort(rec, pr, port) ==
    /\ rec.present
    /\ IsProcessRunning(pr, rec.pid)

\* the port test of line 112 inverted
AlreadyActivePortFree(rec, pr, port) ==
    /\ rec.present
    /\ IsProcessRunning(pr, rec.pid)
    /\ rec.local_port = port
    /\ ~IsPortInUse(pr, port)

\* the record is the live, matching forward of this instance
AlreadyActive(rec, pr, port) ==
    /\ rec.present
    /\ IsProcessRunning(pr, rec.pid)
    /\ rec.local_port = port
    /\ IsPortInUse(pr, port)

\* lines 105-126, up to the decision what to do with an existing record
CtCheck(t) ==
    /\ pc[t] = "ct_check"
    /\ LET rec == active_tunnels[a_inst[t]] IN
       IF ~rec.present
       THEN /\ Goto(t, "reclaim")
            /\ UNCHANGED <<l_pid, l_n, l_busy>>
       ELSE IF AlreadyActive(rec, procs, a_port[t])
       THEN Return(t, Ret(TRUE, "already_active", rec.pid, rec.local_port))
       ELSE IF IsProcessRunning(procs, rec.pid)
       THEN /\ Goto(t, "ct_kill")
            /\ l_pid' = [l_pid EXCEPT ![t] = rec.pid]
            /\ UNCHANGED <<l_n, l_busy>>
       ELSE /\ Goto(t, "ct_del")
            /\ UNCHANGED <<l_pid, l_n, l_busy>>
    /\ UNCHANGED <<active_tunnels, use_tunnel, procs>>

\* line 122: the configuration changed, kill the recorded process
CtKill(t) ==
    /\ pc[t] = "ct_kill"
    /\ procs' \in KillProcess(procs, l_pid[t])
    /\ Goto(t, "ct_del")
    /\ UNCHANGED <<active_tunnels, use_tunnel, l_pid, l_n, l_busy>>

\* the stale record is left in the table
CtDelKeepsRecord(t) ==
    /\ pc[t] = "ct_del"
    /\ Goto(t, "reclaim")
    /\ l_pid' = [l_pid EXCEPT ![t] = 0]
    /\ UNCHANGED <<active_tunnels, use_tunnel, procs, l_n, l_busy>>

\* lines 123 / 126: del self.active_tunnels[instance_name]; a KeyError is
\* not caught in create_tunnel and leaves through the view
CtDel(t) ==
    /\ pc[t] = "ct_del"
    /\ IF active_tunnels[a_inst[t]].present
       THEN /\ active_tunnels' = [active_tunnels EXCEPT ![a_inst[t]] = NoRec]
            /\ Goto(t, "reclaim")
            /\ l_pid' = [l_pid EXCEPT ![t] = 0]
            /\ UNCHANGED <<l_n, l_busy>>
       ELSE /\ Return(t, Ret(FALSE, "raised", 0, NoPort))
            /\ UNCHANGED active_tunnels
    /\ UNCHANGED <<use_tunnel, procs>>

\* lines 128-133: kill any existing tunnels using this local port
Reclaim(t) ==
    /\ pc[t] = "reclaim"
    /\ procs' = KillTunnelOnPort(procs, a_port[t])
    /\ Goto(t, "recheck")
    /\ UNCHANGED <<active_tunnels, use_tunnel, l_pid, l_n, l_busy>>

\* lines 136-150: if the port is still in use and a test bind fails, kill by
\* port once more; the launch follows in every case
Recheck(t) ==
    /\ pc[t] = "recheck"
    /\ procs' = IF IsPortInUse(procs, a_port[t])
                THEN KillTunnelOnPort(procs, a_port[t])
                ELSE procs
    /\ l_busy' = [l_busy EXCEPT ![t] = IsPortInUse(procs, a_port[t])]
    /\ Goto(t, IF a_host[t] = "jump01" THEN "cm_check" ELSE "launch_popen")
    /\ UNCHANGED <<active_tunnels, use_tunnel, l_pid, l_n>>

\* the process id the operating system gives to the next launched process
NextPid(pr) == CHOOSE p \in FreeLaunchPids(pr) : \A q \in FreeLaunchPids(pr) : p <= q

\* the forward is launched although the check found no control connection
CmCheckLaunchesAnyway(t, master) ==
    /\ pc[t] = "cm_check"
    /\ IF master
       THEN /\ Goto(t, "launch_f")
            /\ UNCHANGED <<l_pid, l_n, l_busy, procs>>
       ELSE /\ FreeLaunchPids(procs) # {}
            /\ procs' = [procs EXCEPT ![NextPid(procs)] =
                            NewSsh(a_inst[t], a_port[t], NoPort, TRUE)]
            /\ Return(t, Ret(FALSE, "no_controlmaster", 0, NoPort))
    /\ UNCHANGED <<active_tunnels, use_tunnel>>

\* lines 185-206: ssh -O check jump01; a non-zero exit ends the call, exit 0
\* or an exception of the check itself lets it continue
CmCheck(t, master) ==
    /\ pc[t] = "cm_check"
    /\ IF master
       THEN /\ Goto(t, "launch_f")
            /\ UNCHANGED <<l_pid, l_n, l_busy>>
       ELSE Return(t, Ret(FALSE, "no_controlmaster", 0, NoPort))
    /\ UNCHANGED <<active_tunnels, use_tunnel, procs>>

(* -------------- SSHTunnelManager._create_tunnel_with_popen ------------- *)
\* lines 339-352: Popen starts ssh (without -f) in a new session and returns
\* at once with its pid; the forward is bound later, if at all.  A Popen
\* that raises ends the call with an error result.
LaunchPopen(t, started) ==
    /\ pc[t] = "launch_popen"
    /\ IF started
       THEN /\ FreeLaunchPids(procs) # {}
            /\ procs' = [procs EXCEPT ![NextPid(procs)] =
                            NewSsh(a_inst[t], a_port[t], NoPort, TRUE)]
            /\ Goto(t, "verify")
            /\ SetLocals(t, NextPid(procs), 0)
            /\ UNCHANGED l_busy
       ELSE /\ Return(t, Ret(FALSE, "error", 0, NoPort))
            /\ UNCHANGED procs
    /\ UNCHANGED <<active_tunnels, use_tunnel>>

(* -------------- SSHTunnelManager._create_tunnel_with_f_flag ------------ *)
SshOutcomes == {"ok", "tput_only", "auth", "error", "timeout"}

\* lines 226-261: ssh -f runs in the foreground until it is authenticated and
\* its forward is bound (ExitOnForwardFailure=yes), then goes to the
\* background.  With a shared control connection the listener may belong to
\* a process whose command line does not show the tunnel spec (cmd).
LaunchF(t, outcome, cmd) ==
    /\ pc[t] = "launch_f"
    /\ CASE outcome = "ok" ->
              /\ ~IsPortInUse(procs, a_port[t])
              /\ FreeLaunchPids(procs) # {}
              /\ procs' = [procs EXCEPT ![NextPid(procs)] =
                              NewSsh(a_inst[t], a_port[t], a_port[t], cmd)]
              /\ Goto(t, "find_pid")
              /\ SetLocals(t, 0, 0)
              /\ UNCHANGED l_busy
         [] outcome = "tput_only" ->
              /\ cmd
              /\ Goto(t, "find_pid")
              /\ SetLocals(t, 0, 0)
              /\ UNCHANGED <<procs, l_busy>>
         [] outcome = "auth" ->
              /\ cmd
              /\ Return(t, Ret(FALSE, "auth_failed", 0, NoPort))
              /\ UNCHANGED procs
         [] outcome = "error" ->
              /\ cmd
              /\ Return(t, Ret(FALSE, "ssh_failed", 0, NoPort))
              /\ UNCHANGED procs
         [] outcome = "timeout" ->
              /\ cmd
              /\ Return(t, Ret(FALSE, "timeout", 0, NoPort))
              /\ UNCHANGED procs
    /\ UNCHANGED <<active_tunnels, use_tunnel>>

\* lines 270-285: one attempt of the loop; the command-line match first, the
\* owner of the listening port second (psutil may be denied the socket list:
\* visible = FALSE); after the fifth miss the loop ends
FindPid(t, visible) ==
    /\ pc[t] = "find_pid"
    /\ LET byCmd == CmdlineMatches(procs, a_inst[t], a_port[t])
           byPort == IF visible THEN OwnersOf(procs, a_port[t]) ELSE {}
           found == IF byCmd # {} THEN byCmd ELSE byPort
       IN IF found # {}
          THEN /\ \E p \in found : SetLocals(t, p, 0)
               /\ Goto(t, "verify")
          ELSE IF l_n[t] + 1 < pid_attempts
          THEN /\ SetLocals(t, 0, l_n[t] + 1)
               /\ Goto(t, "find_pid")
          ELSE /\ SetLocals(t, 0, 0)
               /\ Goto(t, "lsof")
    /\ UNCHANGED <<active_tunnels, use_tunnel, procs, l_busy>>

\* lines 287-311: last attempt with lsof; without a pid the dummy -1 is used
Lsof(t, visible) ==
    /\ pc[t] = "lsof"
    /\ LET found == IF visible THEN OwnersOf(procs, a_port[t]) ELSE {}
       IN IF found # {}
          THEN \E p \in found : SetLocals(t, p, 0)
          ELSE SetLocals(t, UntrackedPid, 0)
    /\ Goto(t, "verify")
    /\ UNCHANGED <<active_tunnels, use_tunnel, procs, l_busy>>

(* -------------- SSHTunnelManager._verify_and_finalize_tunnel ----------- *)
\* success as soon as the launch has returned, whatever the port's state
PortReadyAfterLaunch(pr, port) == port \in Ports

\* the port check of line 372 decides whether the record is stored
PortReady(pr, port) == IsPortInUse(pr, port)

\* the loop checks the port again and again until it is bound
VerifyPollsOn(t) ==
    /\ pc[t] = "verify"
    /\ IF PortReady(procs, a_port[t])
       THEN /\ active_tunnels' = [active_tunnels EXCEPT ![a_inst[t]] =
                                     TunnelRec(l_pid[t], a_port[t])]
            /\ Return(t, Ret(TRUE, "created", l_pid[t], a_port[t]))
            /\ UNCHANGED procs
       ELSE /\ SetLocals(t, l_pid[t], l_n[t])
            /\ Goto(t, "verify")
            /\ UNCHANGED <<active_tunnels, procs, l_busy>>
    /\ UNCHANGED use_tunnel

\* lines 366-418: one port check of the loop.  Bound: store the record and
\* return success.  Not bound after the last check: kill the launched
\* process if its pid is known and return failure.
Verify(t) ==
    /\ pc[t] = "verify"
    /\ IF PortReady(procs, a_port[t])
       THEN /\ active_tunnels' = [active_tunnels EXCEPT ![a_inst[t]] =
                                     TunnelRec(l_pid[t], a_port[t])]
            /\ Return(t, Ret(TRUE, "created", l_pid[t], a_port[t]))
            /\ UNCHANGED procs
       ELSE IF l_n[t] + 1 < max_attempts
       THEN /\ SetLocals(t, l_pid[t], l_n[t] + 1)
            /\ Goto(t, "verify")
            /\ UNCHANGED <<active_tunnels, procs, l_busy>>
       ELSE /\ procs' \in KillProcess(procs, l_pid[t])
            /\ Return(t, Ret(FALSE, "bind_failed", 0, NoPort))
            /\ UNCHANGED active_tunnels
    /\ UNCHANGED use_tunnel

(* --------------------- SSHTunnelManager.close_tunnel ------------------- *)
CloseCall(t, inst) ==
    /\ pc[t] = "idle"
    /\ pc' = [pc EXCEPT ![t] = "cl_check"]
    /\ a_inst' = [a_inst EXCEPT ![t] = inst]
    /\ result' = [result EXCEPT ![t] = NoResult]
    /\ UNCHANGED <<active_tunnels, use_tunnel, procs, a_port, a_host,
                   l_pid, l_n, l_busy, h_conflict>>
    /\ h_conn' = [h_conn EXCEPT ![inst] = NoEnd]
    /\ UNCHANGED syncvars

\* a missing record reported as a successful close
ClCheckLenient(t) ==
    /\ pc[t] = "cl_check"
    /\ LET rec == active_tunnels[a_inst[t]] IN
       IF ~rec.present
       THEN Return(t, Ret(TRUE, "closed", 0, NoPort))
       ELSE /\ pc' = [pc EXCEPT ![t] = "cl_kill"]
            /\ a_port' = [a_port EXCEPT ![t] = rec.local_port]
            /\ l_pid' = [l_pid EXCEPT ![t] = rec.pid]
            /\ UNCHANGED <<a_inst, a_host, l_n, l_busy, h_conflict, result, h_conn>>
            /\ UNCHANGED syncvars
    /\ UNCHANGED <<active_tunnels, use_tunnel, procs>>

\* lines 436-444: not found, or read pid and local_port of the record
ClCheck(t) ==
    /\ pc[t] = "cl_check"
    /\ LET rec == active_tunnels[a_inst[t]] IN
       IF ~rec.present
       THEN Return(t, Ret(FALSE, "not_found", 0, NoPort))
       ELSE /\ pc' = [pc EXCEPT ![t] = "cl_kill"]
            /\ a_port' = [a_port EXCEPT ![t] = rec.local_port]
            /\ l_pid' = [l_pid EXCEPT ![t] = rec.pid]
            /\ UNCHANGED <<a_inst, a_host, l_n, l_busy, h_conflict, result, h_conn>>
            /\ UNCHANGED syncvars
    /\ UNCHANGED <<active_tunnels, use_tunnel, procs>>

\* lines 446-452: kill the tracked process, or the ssh owners of the port
ClKill(t) ==
    /\ pc[t] = "cl_kill"
    /\ IF l_pid[t] > 0
       THEN procs' \in KillProcess(procs, l_pid[t])
       ELSE procs' = KillTunnelOnPort(procs, a_port[t])
    /\ Goto(t, "cl_del")
    /\ UNCHANGED <<active_tunnels, use_tunnel, l_pid, l_n, l_busy>>

\* the record is kept when the recorded process survived the kill
ClDelIfTerminated(t) ==
    /\ pc[t] = "cl_del"
    /\ IF active_tunnels[a_inst[t]].present /\ ~IsProcessRunning(procs, l_pid[t])
       THEN /\ active_tunnels' = [active_tunnels EXCEPT ![a_inst[t]] = NoRec]
            /\ Return(t, Ret(TRUE, "closed", 0, NoPort))
       ELSE /\ Return(t, Ret(FALSE, "error", 0, NoPort))
            /\ UNCHANGED active_tunnels
    /\ UNCHANGED <<use_tunnel, procs>>

\* lines 454-471: delete the record; a KeyError is caught and reported
ClDel(t) ==
    /\ pc[t] = "cl_del"
    /\ IF active_tunnels[a_inst[t]].present
       THEN /\ active_tunnels' = [active_tunnels EXCEPT ![a_inst[t]] = NoRec]
            /\ Return(t, Ret(TRUE, "closed", 0, NoPort))
       ELSE /\ Return(t, Ret(FALSE, "error", 0, NoPort))
            /\ UNCHANGED active_tunnels
    /\ UNCHANGED <<use_tunnel, procs>>

(* ------------------ SSHTunnelManager.get_active_tunnels ---------------- *)
\* records without a tracked process (pid <= 0) are kept by the sweep
SweptKeepsUntracked(tab, pr) ==
    [i \in Instances |->
        IF tab[i].present /\ tab[i].pid > 0 /\ ~IsProcessRunning(pr, tab[i].pid)
        THEN NoRec ELSE tab[i]]

\* lines 480-494: drop every record whose process is not running
Swept(tab, pr) ==
    [i \in Instances |->
        IF tab[i].present /\ ~IsProcessRunning(pr, tab[i].pid)
        THEN NoRec ELSE tab[i]]

GetActiveTunnels(t) ==
    /\ pc[t] = "idle"
    /\ active_tunnels' = Swept(active_tunnels, procs)
    /\ Return(t, Ret(TRUE, "list", 0, NoPort))
    /\ UNCHANGED <<use_tunnel, procs>>

(* ------------------------- the operating system ------------------------ *)
\* a started ssh binds its forward once the local port is free
ForwardBinds(p) ==
    /\ Alive(procs, p)
    /\ procs[p].kind = "ssh"
    /\ procs[p].listen = NoPort
    /\ ~IsPortInUse(procs, procs[p].want)
    /\ procs' = [procs EXCEPT ![p].listen = procs[p].want]
    /\ UNCHANGED <<active_tunnels, use_tunnel, pc, a_inst, a_port, a_host,
                   l_pid, l_n, l_busy, h_conflict, result, h_conn>>
    /\ UNCHANGED syncvars

\* any process may exit on its own (connection lost, bind refused, ...)
ProcExits(p) ==
    /\ Alive(procs, p)
    /\ procs' = [procs EXCEPT ![p] = Gone(procs[p], "exited")]
    /\ UNCHANGED <<active_tunnels, use_tunnel, pc, a_inst, a_port, a_host,
                   l_pid, l_n, l_busy, h_conflict, result, h_conn>>
    /\ UNCHANGED syncvars

\* a process the manager did not launch binds a free local port: another
\* service, or an ssh forward left over from an earlier run
ExtStarts(p, kind, port) ==
    /\ procs[p].kind = "none"
    /\ ~IsPortInUse(procs, port)
    /\ procs' = [procs EXCEPT ![p] = NewExt(kind, port)]
    /\ UNCHANGED <<active_tunnels, use_tunnel, pc, a_inst, a_port, a_host,
                   l_pid, l_n, l_busy, h_conflict, result, h_conn>>
    /\ UNCHANGED syncvars

(* ------------------------- sync check of a device ---------------------- *)
Clients == {"curl", "native"}

\* check_device_sync is called on a client and sends its request
SendCheck(c) ==
    /\ s_pc \in {"idle", "done"}
    /\ s_pc' = "sent"
    /\ s_client' = c
    /\ s_reply' = NoReply
    /\ s_out' = NoDict
    /\ UNCHANGED <<tunnelvars, viewvars, batchvars, helpervars>>

\* the request comes back
ApiReplies ==
    /\ s_pc = "sent"
    /\ s_pc' = "replied"
    /\ s_reply' \in Replies
    /\ UNCHANGED <<s_client, s_out>>
    /\ UNCHANGED <<tunnelvars, viewvars, batchvars, helpervars>>

\* the rest of check_device_sync, up to its return
Classify ==
    /\ s_pc = "replied"
    /\ s_pc' = "done"
    /\ s_out' = IF s_client = "curl"
                THEN CurlCheckDeviceSync(s_reply)
                ELSE NativeCheckDeviceSync(s_reply)
    /\ UNCHANGED <<s_client, s_reply>>
    /\ UNCHANGED <<tunnelvars, viewvars, batchvars, helpervars>>

(* --------------------------- views.check_sync -------------------------- *)
\* lines 98-113: the endpoint the client is given: the instance's own address
\* if its record is marked direct, else localhost at the port of the record
\* (get_tunnel_port), else localhost at the configured local port
Endpoint(tab, inst) ==
    IF tab[inst].present /\ tab[inst].direct THEN DirectEnd
    ELSE IF tab[inst].present /\ tab[inst].local_port # NoPort
    THEN LocalEnd(tab[inst].local_port)
    ELSE LocalEnd(ConfigPort(inst))

\* the view answers without a client
Refuse(name, creds, msg) ==
    /\ k_pc' = "done"
    /\ k_inst' = name
    /\ k_creds' = creds
    /\ k_ret' = Failure(msg)
    /\ UNCHANGED <<k_end, k_client, k_reqs, k_n, k_results>>

\* the client is created before the credentials are looked at
CheckSyncCallEager(name, creds) ==
    /\ k_pc = "idle"
    /\ IF name \notin Instances
       THEN Refuse(name, creds, "unknown_instance")
       ELSE /\ k_pc' = "test"
            /\ k_inst' = name
            /\ k_creds' = creds
            /\ k_end' = Endpoint(active_tunnels, name)
            /\ k_client' = TRUE
            /\ UNCHANGED <<k_reqs, k_n, k_results, k_ret>>
    /\ UNCHANGED <<tunnelvars, probevars, batchvars, helpervars>>

\* lines 90-131: unknown instance and missing credentials end the request;
\* otherwise the client is created for the endpoint
CheckSyncCall(name, creds) ==
    /\ k_pc = "idle"
    /\ IF name \notin Instances
       THEN Refuse(name, creds, "unknown_instance")
       ELSE IF ~creds
       THEN Refuse(name, creds, "no_credentials")
       ELSE /\ k_pc' = "test"
            /\ k_inst' = name
            /\ k_creds' = creds
            /\ k_end' = Endpoint(active_tunnels, name)
            /\ k_client' = TRUE
            /\ UNCHANGED <<k_reqs, k_n, k_results, k_ret>>
    /\ UNCHANGED <<tunnelvars, probevars, batchvars, helpervars>>

\* lines 133-136: client.test_connection(); its failure is returned as it is
TestConnection(ok) ==
    /\ k_pc = "test"
    /\ k_reqs' = k_reqs + 1
    /\ IF ok
       THEN /\ k_pc' = "list"
            /\ UNCHANGED k_ret
       ELSE /\ k_pc' = "done"
            /\ k_ret' = Failure("connection_failed")
    /\ UNCHANGED <<k_inst, k_creds, k_end, k_client, k_n, k_results>>
    /\ UNCHANGED <<tunnelvars, probevars, batchvars, helpervars>>

\* NSOClient.check_all_devices_sync, lines 193-198: get_devices(); its
\* failure is returned as it is, without counts
GetDevices(ok, n) ==
    /\ k_pc = "list"
    /\ k_reqs' = k_reqs + 1
    /\ IF ok
       THEN /\ k_pc' = IF n = 0 THEN "sum" ELSE "loop"
            /\ k_n' = n
            /\ UNCHANGED k_ret
       ELSE /\ k_pc' = "done"
            /\ k_ret' = Failure("list_failed")
            /\ UNCHANGED k_n
    /\ UNCHANGED <<k_inst, k_creds, k_end, k_client, k_results>>
    /\ UNCHANGED <<tunnelvars, probevars, batchvars, helpervars>>

\* lines 201-205: the next device of the list is checked and its dict kept
CheckDevice(r) ==
    /\ k_pc = "loop"
    /\ k_reqs' = k_reqs + 1
    /\ k_results' = Append(k_results, NativeCheckDeviceSync(r))
    /\ k_pc' = IF Len(k_results) + 1 = k_n THEN "sum" ELSE "loop"
    /\ UNCHANGED <<k_inst, k_creds, k_end, k_client, k_n, k_ret>>
    /\ UNCHANGED <<tunnelvars, probevars, batchvars, helpervars>>

\* the number of dicts of a list that count as in sync
InSyncCount(results) ==
    Cardinality({j \in 1..Len(results) : InSync(results[j])})

\* lines 207-216: the counts of the summary
Summarise ==
    /\ k_pc = "sum"
    /\ k_pc' = "done"
    /\ k_ret' = Summary(TRUE, "checked", TRUE, Len(k_results),
                        InSyncCount(k_results),
                        Len(k_results) - InSyncCount(k_results))
    /\ UNCHANGED <<k_inst, k_creds, k_end, k_client, k_reqs, k_n, k_results>>
    /\ UNCHANGED <<tunnelvars, probevars, batchvars, helpervars>>

\* views.py lines 139-142: the document is sent and the request is over
Respond ==
    /\ k_pc = "done"
    /\ k_pc' = "idle"
    /\ k_inst' = "a"
    /\ k_creds' = FALSE
    /\ k_end' = NoEnd
    /\ k_client' = FALSE
    /\ k_reqs' = 0
    /\ k_n' = 0
    /\ k_results' = <<>>
    /\ k_ret' = NoSummary
    /\ UNCHANGED <<tunnelvars, probevars, batchvars, helpervars>>

(* ------------------- NSOClientCurl: check of a device list ------------- *)
\* the devices whose futures are in one of the given states
FuturesIn(states) == {d \in 1..Len(b_fut) : b_fut[d] \in states}

\* _check_devices_sync lines 331-346: the counters start at zero and every
\* device's check is submitted to the executor
Submit(n) ==
    /\ b_pc' = "pool"
    /\ b_fut' = [d \in 1..n |-> "queued"]
    /\ b_val' = [d \in 1..n |-> FALSE]
    /\ b_got' = [d \in 1..n |-> FALSE]
    /\ b_status' = <<>>
    /\ b_in' = 0
    /\ b_out' = 0
    /\ UNCHANGED <<b_calls, b_ret>>

\* the call returns without a check
Decline(msg) ==
    /\ b_pc' = "done"
    /\ b_ret' = Doc(Summary(FALSE, msg, TRUE, 0, 0, 0), <<>>)
    /\ UNCHANGED <<b_fut, b_val, b_got, b_status, b_in, b_out, b_calls>>

\* an empty list is checked like any other
CheckSelectedCallAnyList(n) ==
    /\ b_pc = "idle"
    /\ b_op' = "selected"
    /\ b_listed' = "none"
    /\ Submit(n)
    /\ UNCHANGED <<tunnelvars, probevars, viewvars, helpervars>>

\* check_selected_devices_sync, lines 293-313
CheckSelectedCall(n) ==
    /\ b_pc = "idle"
    /\ b_op' = "selected"
    /\ b_listed' = "none"
    /\ IF n = 0 THEN Decline("no_devices_selected") ELSE Submit(n)
    /\ UNCHANGED <<tunnelvars, probevars, viewvars, helpervars>>

\* the devices are checked whatever get_all_devices returned
CheckAllCallIgnoresListing(ok, n) ==
    /\ b_pc = "idle"
    /\ b_op' = "all"
    /\ b_listed' = IF ok THEN "ok" ELSE "failed"
    /\ Submit(n)
    /\ UNCHANGED <<tunnelvars, probevars, viewvars, helpervars>>

\* check_all_devices_sync, lines 272-291: the list comes from get_all_devices
CheckAllCall(ok, n) ==
    /\ b_pc = "idle"
    /\ b_op' = "all"
    /\ b_listed' = IF ok THEN "ok" ELSE "failed"
    /\ IF ~ok THEN Decline("list_failed") ELSE Submit(n)
    /\ UNCHANGED <<tunnelvars, probevars, viewvars, helpervars>>

\* a worker thread runs one check and is not used again
StartOncePerWorker ==
    /\ b_pc = "pool"
    /\ FuturesIn({"queued"}) # {}
    /\ b_calls < max_workers
    /\ LET d == CHOOSE q \in FuturesIn({"queued"}) :
                    \A o \in FuturesIn({"queued"}) : q <= o
       IN b_fut' = [b_fut EXCEPT ![d] = "running"]
    /\ b_calls' = b_calls + 1
    /\ UNCHANGED <<b_pc, b_op, b_listed, b_val, b_got, b_status, b_in, b_out, b_ret>>
    /\ UNCHANGED <<tunnelvars, probevars, viewvars, helpervars>>

\* a worker takes the next check whatever the number of checks under way
StartUnbounded ==
    /\ b_pc = "pool"
    /\ FuturesIn({"queued"}) # {}
    /\ LET d == CHOOSE q \in FuturesIn({"queued"}) :
                    \A o \in FuturesIn({"queued"}) : q <= o
       IN b_fut' = [b_fut EXCEPT ![d] = "running"]
    /\ b_calls' = b_calls + 1
    /\ UNCHANGED <<b_pc, b_op, b_listed, b_val, b_got, b_status, b_in, b_out, b_ret>>
    /\ UNCHANGED <<tunnelvars, probevars, viewvars, helpervars>>

\* ThreadPoolExecutor(max_workers=10): one of at most max_workers worker
\* threads takes the oldest queued check and calls check_device
Start ==
    /\ b_pc = "pool"
    /\ FuturesIn({"queued"}) # {}
    /\ Cardinality(FuturesIn({"running"})) < max_workers
    /\ LET d == CHOOSE q \in FuturesIn({"queued"}) :
                    \A o \in FuturesIn({"queued"}) : q <= o
       IN b_fut' = [b_fut EXCEPT ![d] = "running"]
    /\ b_calls' = b_calls + 1
    /\ UNCHANGED <<b_pc, b_op, b_listed, b_val, b_got, b_status, b_in, b_out, b_ret>>
    /\ UNCHANGED <<tunnelvars, probevars, viewvars, helpervars>>

\* a check that raised or did not report in sync is queued again
FinishRetries(d, r, raised) ==
    /\ b_pc = "pool"
    /\ d \in FuturesIn({"running"})
    /\ IF raised \/ ~InSync(CurlCheckDeviceSync(r))
       THEN /\ b_fut' = [b_fut EXCEPT ![d] = "queued"]
            /\ UNCHANGED b_val
       ELSE /\ b_fut' = [b_fut EXCEPT ![d] = "done"]
            /\ b_val' = [b_val EXCEPT ![d] = TRUE]
    /\ UNCHANGED <<b_pc, b_op, b_listed, b_got, b_status, b_in, b_out, b_calls, b_ret>>
    /\ UNCHANGED <<tunnelvars, probevars, viewvars, helpervars>>

\* check_device, lines 334-342: the check of the device returns its dict, or
\* the helper raises; the future holds the outcome
Finish(d, r, raised) ==
    /\ b_pc = "pool"
    /\ d \in FuturesIn({"running"})
    /\ IF raised
       THEN /\ b_fut' = [b_fut EXCEPT ![d] = "failed"]
            /\ UNCHANGED b_val
       ELSE /\ b_fut' = [b_fut EXCEPT ![d] = "done"]
            /\ b_val' = [b_val EXCEPT ![d] = InSync(CurlCheckDeviceSync(r))]
    /\ UNCHANGED <<b_pc, b_op, b_listed, b_got, b_status, b_in, b_out, b_calls, b_ret>>
    /\ UNCHANGED <<tunnelvars, probevars, viewvars, helpervars>>

\* the entry of device_status
Entry(d, verdict) == [name |-> d, in_sync |-> verdict]

\* a future that raised is taken from the loop and not counted
CollectDropsRaised(d) ==
    /\ b_pc = "pool"
    /\ d \in FuturesIn({"done", "failed"})
    /\ ~b_got[d]
    /\ b_got' = [b_got EXCEPT ![d] = TRUE]
    /\ IF b_fut[d] = "done"
       THEN /\ b_status' = Append(b_status, Entry(d, b_val[d]))
            /\ b_in' = IF b_val[d] THEN b_in + 1 ELSE b_in
            /\ b_out' = IF b_val[d] THEN b_out ELSE b_out + 1
       ELSE UNCHANGED <<b_status, b_in, b_out>>
    /\ UNCHANGED <<b_pc, b_op, b_listed, b_fut, b_val, b_calls, b_ret>>
    /\ UNCHANGED <<tunnelvars, probevars, viewvars, helpervars>>

\* a future that raised ends the call
CollectAborts(d) ==
    /\ b_pc = "pool"
    /\ d \in FuturesIn({"done", "failed"})
    /\ ~b_got[d]
    /\ b_got' = [b_got EXCEPT ![d] = TRUE]
    /\ IF b_fut[d] = "done"
       THEN /\ b_status' = Append(b_status, Entry(d, b_val[d]))
            /\ b_in' = IF b_val[d] THEN b_in + 1 ELSE b_in
            /\ b_out' = IF b_val[d] THEN b_out ELSE b_out + 1
            /\ UNCHANGED <<b_pc, b_ret>>
       ELSE /\ b_pc' = "done"
            /\ b_ret' = Doc(Failure("raised"), <<>>)
            /\ UNCHANGED <<b_status, b_in, b_out>>
    /\ UNCHANGED <<b_op, b_listed, b_fut, b_val, b_calls>>
    /\ UNCHANGED <<tunnelvars, probevars, viewvars, helpervars>>

\* lines 349-365: as_completed hands over a finished future; its result is
\* appended and counted, and a future that raised counts as out of sync
Collect(d) ==
    /\ b_pc = "pool"
    /\ d \in FuturesIn({"done", "failed"})
    /\ ~b_got[d]
    /\ b_got' = [b_got EXCEPT ![d] = TRUE]
    /\ IF b_fut[d] = "done"
       THEN /\ b_status' = Append(b_status, Entry(d, b_val[d]))
            /\ b_in' = IF b_val[d] THEN b_in + 1 ELSE b_in
            /\ b_out' = IF b_val[d] THEN b_out ELSE b_out + 1
       ELSE /\ b_status' = Append(b_status, Entry(d, FALSE))
            /\ b_in' = b_in
            /\ b_out' = b_out + 1
    /\ UNCHANGED <<b_pc, b_op, b_listed, b_fut, b_val, b_calls, b_ret>>
    /\ UNCHANGED <<tunnelvars, probevars, viewvars, helpervars>>

\* lines 367-379: every future was taken; the summary is returned
ReturnBatch ==
    /\ b_pc = "pool"
    /\ \A d \in 1..Len(b_fut) : b_got[d]
    /\ b_pc' = "done"
    /\ b_ret' = Doc(Summary(TRUE, "checked", TRUE, Len(b_fut), b_in, b_out), b_status)
    /\ UNCHANGED <<b_op, b_listed, b_fut, b_val, b_got, b_status, b_in, b_out, b_calls>>
    /\ UNCHANGED <<tunnelvars, probevars, viewvars, helpervars>>

\* the caller has the dict; the next call starts afresh
Forget ==
    /\ b_pc = "done"
    /\ b_pc' = "idle"
    /\ b_op' = "none"
    /\ b_listed' = "none"
    /\ b_fut' = <<>>
    /\ b_val' = <<>>
    /\ b_got' = <<>>
    /\ b_status' = <<>>
    /\ b_in' = 0
    /\ b_out' = 0
    /\ b_calls' = 0
    /\ b_ret' = NoDoc
    /\ UNCHANGED <<tunnelvars, probevars, viewvars, helpervars>>

(* ------------------------ the manager's helpers ------------------------ *)
\* no helper is being called
HelpersIdle == r_pc = "idle" /\ u_pc = "idle" /\ q_pc = "idle"

\* test_remote_reachability(nso_ip, nso_port, ssh_host): the probe is run
ProbeCall(host) ==
    /\ HelpersIdle
    /\ r_pc' = "run"
    /\ r_host' = host
    /\ r_probe' \in Probes
    /\ r_out' = NoVerdict
    /\ UNCHANGED <<tunnelvars, probevars, viewvars, batchvars, portvars, killvars>>

\* lines 50-87: the result is made from how the probe ended
ProbeReturn ==
    /\ r_pc = "run"
    /\ r_pc' = "done"
    /\ r_out' = Reachability(r_probe)
    /\ UNCHANGED <<r_host, r_probe>>
    /\ UNCHANGED <<tunnelvars, probevars, viewvars, batchvars, portvars, killvars>>

\* the caller has the result
ProbeForget ==
    /\ r_pc = "done"
    /\ r_pc' = "idle"
    /\ r_host' = "devm"
    /\ r_probe' = NoProbe
    /\ r_out' = NoVerdict
    /\ UNCHANGED <<tunnelvars, probevars, viewvars, batchvars, portvars, killvars>>

\* _is_port_in_use(port) is called on some platform, for a port in some state
PortCall(port) ==
    /\ HelpersIdle
    /\ u_pc' = "enumerate"
    /\ u_port' = port
    /\ u_os' \in Platforms
    /\ u_access' \in Accesses
    /\ u_sock' \in SockStates
    /\ u_conn' = "none"
    /\ u_out' = FALSE
    /\ UNCHANGED <<tunnelvars, probevars, viewvars, batchvars, reachvars, killvars>>

\* lines 585-598: psutil.net_connections; its answer is returned, its
\* failure leads to the socket test
PortEnumerate ==
    /\ u_pc = "enumerate"
    /\ IF u_access = "ok"
       THEN /\ u_pc' = "done"
            /\ u_out' \in Enumerated(u_sock)
       ELSE /\ u_pc' = "connect"
            /\ UNCHANGED u_out
    /\ UNCHANGED <<u_port, u_os, u_access, u_sock, u_conn>>
    /\ UNCHANGED <<tunnelvars, probevars, viewvars, batchvars, reachvars, killvars>>

\* lines 600-629: the connection test and, if it decides nothing, the bind
PortSocketTest ==
    /\ u_pc = "connect"
    /\ u_pc' = "done"
    /\ \E end \in ConnectEnds(u_sock) :
           /\ u_conn' = end
           /\ u_out' = SocketFallback(u_os, u_sock, end)
    /\ UNCHANGED <<u_port, u_os, u_access, u_sock>>
    /\ UNCHANGED <<tunnelvars, probevars, viewvars, batchvars, reachvars, killvars>>

\* the caller has the value
PortForget ==
    /\ u_pc = "done"
    /\ u_pc' = "idle"
    /\ u_port' = NoPort
    /\ u_os' = "Linux"
    /\ u_access' = "ok"
    /\ u_sock' = "free"
    /\ u_conn' = "none"
    /\ u_out' = FALSE
    /\ UNCHANGED <<tunnelvars, probevars, viewvars, batchvars, reachvars, killvars>>

\* the pids _kill_process is called with: the dummy -1, the 0 of a direct
\* record, and pids of processes
KillPids == {UntrackedPid, DirectPid, 1, 2}

\* the process with the pid at the call: there is none, it runs, or it runs
\* and may not be signalled by this user ("exited" once it ends in the call)
ProcStates == {"absent", "alive", "protected"}

\* lines 631-634: _kill_process(pid) returns at once for pid <= 0
KpCall(pid) ==
    /\ HelpersIdle
    /\ q_pid' = pid
    /\ q_sent' = <<>>
    /\ q_grace' = FALSE
    /\ q_err' = "none"
    /\ IF pid <= 0
       THEN /\ q_pc' = "done"
            /\ q_proc' = "absent"
       ELSE /\ q_pc' = "lookup"
            /\ q_proc' \in ProcStates
    /\ UNCHANGED <<tunnelvars, probevars, viewvars, batchvars, reachvars, portvars>>

\* line 637: psutil.Process(pid); NoSuchProcess is caught at line 647
KpLookup ==
    /\ q_pc = "lookup"
    /\ IF q_proc \in {"absent", "exited"}
       THEN /\ q_pc' = "done"
            /\ q_err' = "NoSuchProcess"
       ELSE /\ q_pc' = "terminate"
            /\ UNCHANGED q_err
    /\ UNCHANGED <<q_pid, q_proc, q_sent, q_grace>>
    /\ UNCHANGED <<tunnelvars, probevars, viewvars, batchvars, reachvars, portvars>>

\* the process is killed at once
KpTerminateForce ==
    /\ q_pc = "terminate"
    /\ IF q_proc = "alive"
       THEN /\ q_sent' = Append(q_sent, "KILL")
            /\ q_proc' = "exited"
            /\ q_pc' = "done"
       ELSE /\ q_pc' = "done"
            /\ UNCHANGED <<q_sent, q_proc>>
    /\ UNCHANGED <<q_pid, q_grace, q_err>>
    /\ UNCHANGED <<tunnelvars, probevars, viewvars, batchvars, reachvars, portvars>>

\* line 638: proc.terminate(); AccessDenied and NoSuchProcess are caught at
\* lines 648-651
KpTerminate ==
    /\ q_pc = "terminate"
    /\ IF q_proc = "alive"
       THEN /\ q_sent' = Append(q_sent, "TERM")
            /\ q_pc' = "wait"
            /\ UNCHANGED q_err
       ELSE /\ q_pc' = "done"
            /\ q_err' = IF q_proc = "protected" THEN "AccessDenied"
                                                ELSE "NoSuchProcess"
            /\ UNCHANGED q_sent
    /\ UNCHANGED <<q_pid, q_proc, q_grace>>
    /\ UNCHANGED <<tunnelvars, probevars, viewvars, batchvars, reachvars, portvars>>

\* the process exits, of its own or on the signal it was sent
TargetExits ==
    /\ q_pc \in {"lookup", "terminate", "wait", "kill"}
    /\ q_proc = "alive"
    /\ q_proc' = "exited"
    /\ UNCHANGED <<q_pc, q_pid, q_sent, q_grace, q_err>>
    /\ UNCHANGED <<tunnelvars, probevars, viewvars, batchvars, reachvars, portvars>>

\* lines 641-643: proc.wait(timeout=3) returns when the process has exited
\* and raises TimeoutExpired when it has not exited after 3 seconds
KpWait ==
    /\ q_pc = "wait"
    /\ IF q_proc = "exited"
       THEN /\ q_pc' = "done"
            /\ UNCHANGED q_grace
       ELSE /\ q_pc' = "kill"
            /\ q_grace' = TRUE
    /\ UNCHANGED <<q_pid, q_proc, q_sent, q_err>>
    /\ UNCHANGED <<tunnelvars, probevars, viewvars, batchvars, reachvars, portvars>>

\* lines 643-645: proc.kill(); NoSuchProcess of a process that has exited
\* in between is caught at line 648
KpKill ==
    /\ q_pc = "kill"
    /\ q_pc' = "done"
    /\ IF q_proc = "alive"
       THEN /\ q_sent' = Append(q_sent, "KILL")
            /\ q_proc' = "exited"
            /\ UNCHANGED q_err
       ELSE /\ q_err' = "NoSuchProcess"
            /\ UNCHANGED <<q_sent, q_proc>>
    /\ UNCHANGED <<q_pid, q_grace>>
    /\ UNCHANGED <<tunnelvars, probevars, viewvars, batchvars, reachvars, portvars>>

\* the caller goes on
KpForget ==
    /\ q_pc = "done"
    /\ q_pc' = "idle"
    /\ q_pid' = 0
    /\ q_proc' = "absent"
    /\ q_sent' = <<>>
    /\ q_grace' = FALSE
    /\ q_err' = "none"
    /\ UNCHANGED <<tunnelvars, probevars, viewvars, batchvars, reachvars, portvars>>

(* ---------------------------- specifications --------------------------- *)
\* a request arrives: one of the three operations is called
Call(t) ==
    \/ \E i \in Instances : ConnectDirect(t, i)
    \/ \E i \in Instances, p \in Ports, h \in Hosts : ConnectCall(t, i, p, h)
    \/ \E i \in Instances : CloseCall(t, i)
    \/ GetActiveTunnels(t)

\* the next step of the call a thread is executing
Run(t) ==
    \/ CtCheck(t)
    \/ CtKill(t)
    \/ CtDel(t)
    \/ Reclaim(t)
    \/ Recheck(t)
    \/ \E m \in BOOLEAN : CmCheck(t, m)
    \/ \E s \in BOOLEAN : LaunchPopen(t, s)
    \/ \E o \in SshOutcomes, c \in BOOLEAN : LaunchF(t, o, c)
    \/ \E v \in BOOLEAN : FindPid(t, v)
    \/ \E v \in BOOLEAN : Lsof(t, v)
    \/ Verify(t)
    \/ ClCheck(t)
    \/ ClKill(t)
    \/ ClDel(t)

\* what the processes the manager launched do on their own
EnvOwn ==
    \/ \E p \in LaunchPids : ForwardBinds(p)
    \/ \E p \in AllPids : ProcExits(p)

\* the same, and processes of other origin appearing
Env ==
    \/ EnvOwn
    \/ \E p \in ExtPids, k \in {"ssh", "other"}, q \in Ports : ExtStarts(p, k, q)

\* the steps of a call when every instance is always connected at the same
\* port and no process of other origin exists: line 122 needs a recorded
\* process that runs while its port differs or is free, and is not reached
RunSamePort(t) ==
    \/ CtCheck(t)
    \/ CtDel(t)
    \/ Reclaim(t)
    \/ Recheck(t)
    \/ \E m \in BOOLEAN : CmCheck(t, m)
    \/ \E s \in BOOLEAN : LaunchPopen(t, s)
    \/ \E o \in SshOutcomes, c \in BOOLEAN : LaunchF(t, o, c)
    \/ \E v \in BOOLEAN : FindPid(t, v)
    \/ \E v \in BOOLEAN : Lsof(t, v)
    \/ Verify(t)
    \/ ClCheck(t)
    \/ ClKill(t)
    \/ ClDel(t)

\* requests served one at a time, any number of them
Next == Call(1) \/ Run(1) \/ Env
Spec == Init /\ [][Next]_vars

\* one request per thread, the threads running concurrently, and no process
\* of other origin
Fresh(t) == result[t] = NoResult
NextConc == (\E t \in Threads : (Fresh(t) /\ Call(t)) \/ Run(t)) \/ EnvOwn
SpecConc == Init /\ [][NextConc]_vars

\* connects and disconnects of one instance at its port, served one at a
\* time; the thread that serves a request keeps running until it returns
\* (every wait of the code is a sleep or a call with a timeout), while no
\* process is bound to do anything
NextOne ==
    \/ \E h \in Hosts : ConnectCall(1, "a", 1, h)
    \/ CloseCall(1, "a")
    \/ Run(1)
    \/ Env
SpecOneFair == Init /\ [][NextOne]_vars /\ WF_vars(Run(1))

\* requests about one instance and its configured port, any number of them,
\* served by the threads concurrently
RaceCall(t) ==
    \/ \E h \in Hosts : ConnectCall(t, "a", 1, h)
    \/ CloseCall(t, "a")
    \/ GetActiveTunnels(t)
NextRace == (\E t \in Threads : RaceCall(t) \/ RunSamePort(t)) \/ EnvOwn
SpecRace == Init /\ [][NextRace]_vars

\* the state before any request, every instance needing a tunnel
InitSync == Init /\ use_tunnel = [i \in Instances |-> TRUE]

\* the requests the views serve for the configured instances and for a name
\* that is not configured, each connect with the instance's own local port
ViewCall(t) ==
    \/ ConnectUnknown(t)
    \/ \E i \in Instances : ConnectDirect(t, i)
    \/ \E i \in Instances, h \in Hosts : ConnectCall(t, i, ConfigPort(i), h)
    \/ \E i \in Instances : CloseCall(t, i)
    \/ GetActiveTunnels(t)

\* connect, disconnect and listing served one at a time, and sync requests
\* whose connection test fails
NextView ==
    \/ ViewCall(1)
    \/ RunSamePort(1)
    \/ EnvOwn
    \/ \E n \in InstanceNames, c \in BOOLEAN : CheckSyncCall(n, c)
    \/ TestConnection(FALSE)
    \/ Respond
SpecView == Init /\ [][NextView]_vars

\* sync requests served one at a time, run to their end
NextCheckAll ==
    \/ \E n \in InstanceNames, c \in BOOLEAN : CheckSyncCall(n, c)
    \/ \E ok \in BOOLEAN : TestConnection(ok)
    \/ \E ok \in BOOLEAN, n \in 0..MaxDevices : GetDevices(ok, n)
    \/ \E r \in DeviceReplies : CheckDevice(r)
    \/ Summarise
    \/ Respond
SpecCheckAll == InitSync /\ [][NextCheckAll]_vars

\* sync checks of one device after the other, by either client
NextSync ==
    \/ \E c \in Clients : SendCheck(c)
    \/ ApiReplies
    \/ Classify
SpecSync == InitSync /\ [][NextSync]_vars

\* batch checks of lists of up to MaxDevices devices, every outcome of each
\* check and every order of completion
NextBatch ==
    \/ \E n \in 0..MaxDevices : CheckSelectedCall(n)
    \/ \E ok \in BOOLEAN, n \in 0..MaxDevices : CheckAllCall(ok, n)
    \/ Start
    \/ \E d \in 1..MaxDevices, r \in DeviceReplies, x \in BOOLEAN : Finish(d, r, x)
    \/ \E d \in 1..MaxDevices : Collect(d)
    \/ ReturnBatch
    \/ Forget
SpecBatch == InitSync /\ [][NextBatch]_vars

\* checkAll of either client, any number of times: the view's request with
\* NSOClient and check_all_devices_sync of NSOClientCurl, for lists of up to
\* MaxListed devices
NextListing ==
    \/ \E i \in Instances : CheckSyncCall(i, TRUE)
    \/ \E ok \in BOOLEAN : TestConnection(ok)
    \/ \E ok \in BOOLEAN, n \in 0..MaxListed : GetDevices(ok, n)
    \/ \E r \in DeviceReplies : CheckDevice(r)
    \/ Summarise
    \/ Respond
    \/ \E ok \in BOOLEAN, n \in 0..MaxListed : CheckAllCall(ok, n)
    \/ Start
    \/ \E d \in 1..MaxListed, r \in DeviceReplies, x \in BOOLEAN : Finish(d, r, x)
    \/ \E d \in 1..MaxListed : Collect(d)
    \/ ReturnBatch
    \/ Forget
SpecListing == InitSync /\ [][NextListing]_vars

\* the helpers of the manager called one at a time, each with every input
NextHelpers ==
    \/ \E h \in Hosts : ProbeCall(h)
    \/ ProbeReturn
    \/ ProbeForget
    \/ \E p \in Ports : PortCall(p)
    \/ PortEnumerate
    \/ PortSocketTest
    \/ PortForget
    \/ \E p \in KillPids : KpCall(p)
    \/ KpLookup
    \/ KpTerminate
    \/ TargetExits
    \/ KpWait
    \/ KpKill
    \/ KpForget
SpecHelpers == Init /\ [][NextHelpers]_vars

\* a list of more devices than the executor has workers; every check is
\* answered in sync, the checks finish in any order and the loop takes the
\* futures in the order of the list
PoolDevices == max_workers + 1
NextToCollect == Cardinality({g \in 1..Len(b_got) : b_got[g]}) + 1
NextPool ==
    \/ CheckSelectedCall(PoolDevices)
    \/ Start
    \/ \E d \in 1..PoolDevices : Finish(d, Answer("in-sync"), FALSE)
    \/ Collect(NextToCollect)
    \/ ReturnBatch
    \/ Forget
SpecPool == InitSync /\ [][NextPool]_vars

\* the same, where the executor's idle workers take queued checks, the loop
\* takes finished futures and the call returns when it can; the checks of
\* all devices but the first come to their end, the first may run for ever
SpecPoolFair ==
    /\ SpecPool
    /\ WF_vars(Start)
    /\ WF_vars(Collect(NextToCollect))
    /\ WF_vars(ReturnBatch)
    /\ \A d \in 2..PoolDevices : WF_vars(Finish(d, Answer("in-sync"), FALSE))

(* ================================ claims ================================ *)
\* the thread takes a step of its call
Moves(t) == pc'[t] # pc[t] \/ l_n'[t] # l_n[t]

\* the thread's call returns with this step
Returns(t) == pc[t] # "idle" /\ pc'[t] = "idle"

\* some process is started by this step
Launches == \E p \in LaunchPids : procs[p].kind = "none" /\ procs'[p].kind # "none"

\* the live, bound forwards that were launched for an instance
ForwardsOf(pr, inst) ==
    {p \in LaunchPids : Alive(pr, p) /\ pr[p].kind = "ssh" /\ pr[p].inst = inst}

\* C1: connect for an instance whose record exists, whose recorded process is
\* alive, whose stored port equals the requested port and whose port is bound
\* returns success with the stored pid and port, launches nothing, terminates
\* nothing and leaves the tunnel table unchanged.
C1_AlreadyActiveIsNoOp ==
    [][\A t \in Threads :
        LET rec == active_tunnels[a_inst[t]] IN
        ( /\ pc[t] = "ct_check"
          /\ Moves(t)
          /\ rec.present
          /\ rec.pid \in AllPids
          /\ procs[rec.pid].st = "alive"
          /\ rec.local_port = a_port[t]
          /\ \E p \in AllPids : procs[p].st = "alive" /\ procs[p].listen = a_port[t] )
        => ( /\ pc'[t] = "idle"
             /\ result'[t].success
             /\ result'[t].pid = rec.pid
             /\ result'[t].local_port = rec.local_port
             /\ procs' = procs
             /\ active_tunnels' = active_tunnels )]_vars

\* C1 witness: a connect has returned at once on a live, matching record
C1_Witness ==
    \E t \in Threads :
        /\ result[t].msg = "already_active"
        /\ result[t].success
        /\ \E i \in Instances :
              /\ active_tunnels[i] = TunnelRec(result[t].pid, result[t].local_port)
              /\ IsProcessRunning(procs, result[t].pid)

\* C2 (as claimed): a connect called again for an instance whose record holds
\* the requested port, while the forward launched for that instance by the
\* earlier connect is still bound to the port, returns success at once: no
\* process is launched or killed, so one forward serves both calls and the
\* table keeps its one record.
C2_SecondConnectReusesForward ==
    [][\A t \in Threads :
        LET rec == active_tunnels[a_inst[t]] IN
        ( /\ pc[t] = "ct_check"
          /\ Moves(t)
          /\ rec.present /\ ~rec.direct
          /\ rec.local_port = a_port[t]
          /\ \E p \in ForwardsOf(procs, a_inst[t]) : procs[p].listen = a_port[t] )
        => ( /\ pc'[t] = "idle"
             /\ result'[t].success
             /\ procs' = procs
             /\ active_tunnels' = active_tunnels )]_vars

\* C3: a record is stored by a launch, and success returned from a launch,
\* only in a step of the verification loop whose port-in-use check on the
\* requested port is true, and the record stored is that of the request.
C3_SuccessOnlyWhenPortBound ==
    [][/\ \A t \in Threads :
            (result'[t].msg = "created" /\ result'[t] # result[t])
            => ( /\ pc[t] = "verify"
                 /\ result'[t].success
                 /\ \E p \in AllPids :
                       procs[p].st = "alive" /\ procs[p].listen = a_port[t] )
       /\ \A i \in Instances :
            ( /\ active_tunnels'[i] # active_tunnels[i]
              /\ active_tunnels'[i].present
              /\ ~active_tunnels'[i].direct )
            => \E t \in Threads :
                  /\ pc[t] = "verify"
                  /\ a_inst[t] = i
                  /\ active_tunnels'[i] = TunnelRec(l_pid[t], a_port[t])
                  /\ result'[t].msg = "created"
                  /\ \E p \in AllPids :
                        procs[p].st = "alive" /\ procs[p].listen = a_port[t]]_vars

\* C3 witness: a launch has ended in success with its record stored
C3_Witness ==
    \E t \in Threads, i \in Instances :
        /\ result[t].msg = "created"
        /\ active_tunnels[i].present
        /\ active_tunnels[i].pid = result[t].pid
        /\ IsPortInUse(procs, result[t].local_port)

\* positions of a call after its first read of the instance's record
AfterFirstRead == {"ct_kill", "ct_del", "reclaim", "recheck", "cm_check",
                   "launch_f", "launch_popen", "find_pid", "lsof", "verify",
                   "cl_kill", "cl_del"}

\* C4 (as claimed): connect and disconnect calls for one instance are
\* serialized: no two threads are both between their first read of the
\* instance's record and their return.
C4_SerializedPerInstance ==
    \A t, u \in Threads :
        (t # u /\ pc[t] \in AfterFirstRead /\ pc[u] \in AfterFirstRead)
        => a_inst[t] # a_inst[u]

\* positions of connect from the start of the reclamation of the port to the
\* end of the verification of the bind
ReclaimSection == {"recheck", "cm_check", "launch_f", "launch_popen",
                   "find_pid", "lsof", "verify"}

\* C5 (as claimed): port reclamation is a critical section per local port:
\* connects of two different instances for the same port are never both
\* between the start of reclamation and the end of bind verification.
C5_ReclaimCriticalSection ==
    \A t, u \in Threads :
        ( /\ t # u
          /\ pc[t] \in ReclaimSection /\ pc[u] \in ReclaimSection
          /\ a_inst[t] # a_inst[u] )
        => a_port[t] # a_port[u]

\* C6 (as claimed): no two records of different instances hold the same
\* local port.
C6_OneOwnerPerPort ==
    \A i, j \in Instances :
        ( /\ i # j
          /\ active_tunnels[i].present /\ ~active_tunnels[i].direct
          /\ active_tunnels[j].present /\ ~active_tunnels[j].direct )
        => active_tunnels[i].local_port # active_tunnels[j].local_port

\* C7 (as claimed): once a call has returned, at most one forwarding process
\* launched for a given instance is alive.
C7_OneTunnelPerInstance ==
    (\A t \in Threads : pc[t] = "idle")
    => \A i \in Instances : Cardinality(ForwardsOf(procs, i)) <= 1

\* C8 (as claimed): a connect called while the requested port is bound by a
\* process that is not ssh, and that still holds the port when the call
\* returns, returns failure, leaves no record for the instance and has not
\* terminated that process.
C8_ForeignPortIsConflict ==
    [][\A t \in Threads :
        ( /\ Returns(t)
          /\ h_conflict[t] # 0
          /\ procs[h_conflict[t]].st # "exited" )
        => ( /\ ~result'[t].success
             /\ ~active_tunnels'[a_inst[t]].present
             /\ procs'[h_conflict[t]].st = "alive" )]_vars

\* C9 (as claimed): the manager terminates no process whose name does not
\* match ssh.  (A process of another name is never launched by the manager
\* and never matches a command line search, so its pid can only come from a
\* lookup of the owner of a port.)
C9_KillsOnlySsh ==
    \A p \in AllPids : procs[p].st = "killed" => procs[p].kind = "ssh"

\* C10 (as claimed): connect launches the forwarding process only when its
\* last look at the requested port (line 136) found it released.
C10_LaunchAfterRelease ==
    [][\A t \in Threads :
        (pc[t] \in {"launch_popen", "launch_f"} /\ Moves(t) /\ Launches)
        => ~l_busy[t]]_vars

\* the record a connect finds is stale: its process is dead, or alive with
\* another stored port or with the port no longer bound
Stale(rec, pr, port) ==
    /\ rec.present
    /\ \/ ~(rec.pid > 0 /\ rec.pid \in AllPids /\ pr[rec.pid].st = "alive")
       \/ rec.local_port # port
       \/ ~\E p \in AllPids : pr[p].st = "alive" /\ pr[p].listen = port

InCreateTunnel == {"ct_check", "ct_kill", "ct_del", "reclaim", "recheck",
                   "cm_check", "launch_f", "launch_popen", "find_pid", "lsof",
                   "verify"}

\* C12: every record with direct = true holds no process id above 0 and no
\* local port, and create_tunnel is never entered for an instance that needs
\* no tunnel; the connect of such an instance installs the direct record of
\* that instance and returns success, and no process is launched or killed.
C12_DirectRecordIsMarkerOnly ==
    /\ [](/\ \A i \in Instances :
               active_tunnels[i].direct
               => ( /\ active_tunnels[i].present
                    /\ active_tunnels[i].pid <= 0
                    /\ active_tunnels[i].local_port = NoPort )
          /\ \A t \in Threads : pc[t] \in InCreateTunnel => use_tunnel[a_inst[t]])
    /\ [][\A t \in Threads :
            ( /\ pc[t] = "idle"
              /\ result'[t].msg = "direct"
              /\ result'[t] # result[t] \/ active_tunnels' # active_tunnels )
            => ( /\ result'[t].success
                 /\ procs' = procs
                 /\ \E i \in Instances :
                       /\ ~use_tunnel[i]
                       /\ active_tunnels'[i].direct
                       /\ \A j \in Instances \ {i} :
                             active_tunnels'[j] = active_tunnels[j] )]_vars

\* C12 witness: a connect of an instance without tunnel has returned and its
\* direct record is in the table
C12_Witness ==
    \E t \in Threads, i \in Instances :
        /\ result[t].msg = "direct"
        /\ result[t].success
        /\ ~use_tunnel[i]
        /\ active_tunnels[i].direct

\* C13 (as claimed): a direct record, once installed, stays in the table
\* unchanged until a disconnect of its instance deletes it.
C13_DirectRecordOutlivesListing ==
    [][\A i \in Instances :
        (active_tunnels[i].direct /\ active_tunnels'[i] # active_tunnels[i])
        => \E t \in Threads : pc[t] = "cl_del" /\ a_inst[t] = i]_vars

\* C14 (as claimed): listActive keeps a record with pid = -1 while the
\* record's local port is bound.
C14_UntrackedRecordStaysActive ==
    [][\A i \in Instances :
        LET rec == active_tunnels[i] IN
        ( /\ rec.present
          /\ rec.pid = UntrackedPid
          /\ \E p \in AllPids : procs[p].st = "alive" /\ procs[p].listen = rec.local_port
          /\ \E t \in Threads : pc[t] = "idle" /\ result'[t].msg = "list" )
        => active_tunnels'[i] = rec]_vars

\* C15: the last port check of the verification loop that finds the port not
\* bound returns failure, stores no record (the instance has none), and
\* leaves the launched process dead whenever its pid is known, touching no
\* other process; an earlier check that finds the port not bound only counts.
C15_BindFailureCleansUp ==
    [][\A t \in Threads :
        LET unbound == ~\E p \in AllPids :
                           procs[p].st = "alive" /\ procs[p].listen = a_port[t]
        IN
        /\ (pc[t] = "verify" /\ Moves(t) /\ unbound /\ l_n[t] + 1 >= max_attempts)
           => ( /\ pc'[t] = "idle"
                /\ ~result'[t].success
                /\ result'[t].msg = "bind_failed"
                /\ active_tunnels' = active_tunnels
                /\ ~active_tunnels'[a_inst[t]].present
                /\ l_pid[t] > 0 => procs'[l_pid[t]].st # "alive"
                /\ \A p \in AllPids \ {l_pid[t]} : procs'[p] = procs[p] )
        /\ (pc[t] = "verify" /\ Moves(t) /\ unbound /\ l_n[t] + 1 < max_attempts)
           => ( /\ pc'[t] = "verify"
                /\ l_n'[t] = l_n[t] + 1
                /\ procs' = procs
                /\ active_tunnels' = active_tunnels )
        /\ (result'[t].msg = "bind_failed" /\ result'[t] # result[t])
           => (pc[t] = "verify" /\ unbound /\ l_n[t] + 1 = max_attempts)]_vars

\* C15 witness: a connect has failed on the bind and its process was killed
C15_Witness ==
    \E t \in Threads, p \in LaunchPids :
        /\ result[t].msg = "bind_failed"
        /\ ~result[t].success
        /\ procs[p].kind = "ssh"
        /\ procs[p].st = "killed"
        /\ \A i \in Instances : ~active_tunnels[i].present

\* C16: a disconnect for an instance without record returns failure with the
\* not-found message, kills no process and leaves the table unchanged.
C16_DisconnectWithoutRecord ==
    [][\A t \in Threads :
        (pc[t] = "cl_check" /\ Moves(t) /\ ~active_tunnels[a_inst[t]].present)
        => ( /\ pc'[t] = "idle"
             /\ ~result'[t].success
             /\ result'[t].msg = "not_found"
             /\ procs' = procs
             /\ active_tunnels' = active_tunnels )]_vars

\* C16 witness: a disconnect has returned not found while a process runs
C16_Witness ==
    \E t \in Threads :
        /\ result[t].msg = "not_found"
        /\ ~result[t].success
        /\ \E p \in AllPids : procs[p].st = "alive"

C19_TriStateClassification ==
    ( /\ s_pc = "done"
      /\ s_client = "curl"
      /\ s_reply.outcome \in {"ok", "late"}
      /\ \E k \in 1..Len(s_reply.body) :
            /\ s_reply.body[k].key = "result"
            /\ s_reply.body[k].quoted
            /\ s_reply.body[k].val # "" )
    => LET k == CHOOSE k \in 1..Len(s_reply.body) :
                    /\ s_reply.body[k].key = "result"
                    /\ s_reply.body[k].quoted
                    /\ s_reply.body[k].val # ""
                    /\ \A j \in 1..(k - 1) :
                          ~( /\ s_reply.body[j].key = "result"
                             /\ s_reply.body[j].quoted
                             /\ s_reply.body[j].val # "" )
       IN (s_out.has_in_sync /\ s_out.in_sync)
          <=> s_reply.body[k].val \in {"in-sync", "locked"}

\* the request of the check failed: no answer (refused, timed out, an
\* exception), or an answer with a status other than 200
RequestFailed ==
    \/ s_reply.outcome \in {"refused", "timeout", "raised"}
    \/ s_client = "native" /\ s_reply.outcome = "late"
    \/ s_reply.status # HttpOk

\* the answer holds no result field the client can parse
NoParsableResult ==
    \/ s_reply.body = <<>>
    \/ \A k \in 1..Len(s_reply.body) : s_reply.body[k].key # "result"
    \/ s_client = "native" /\ ~s_reply.json

\* C20: a device whose request failed, or whose answer holds no parsable
\* result field, is never reported in sync, by either client.
C20_UncheckedIsNotInSync ==
    (s_pc = "done" /\ (RequestFailed \/ NoParsableResult))
    => ~(s_out.has_in_sync /\ s_out.in_sync)

\* C20 witness: an answer without result field was classified not in sync
C20_Witness ==
    /\ s_pc = "done"
    /\ s_client = "curl"
    /\ s_reply.outcome = "ok"
    /\ s_reply.body # <<>>
    /\ \A k \in 1..Len(s_reply.body) : s_reply.body[k].key # "result"
    /\ s_out.has_in_sync
    /\ ~s_out.in_sync

\* the answer is a well-formed document with a status of 200 whose only
\* field is the result field, holding one of the values told apart
ProperAnswer ==
    /\ s_reply.outcome = "ok"
    /\ s_reply.status = HttpOk
    /\ s_reply.json
    /\ Len(s_reply.body) = 1
    /\ s_reply.body[1].key = "result"
    /\ s_reply.body[1].quoted
    /\ s_reply.body[1].val \in StatusValues

\* the request got no answer at all
NoAnswer == s_reply.outcome \in {"refused", "timeout", "raised"}

\* C21 (as claimed): on every proper answer and on every request without
\* answer, the verdict of the client that ran the check is the verdict the
\* other client gives on the same reply.
C21_ClientsAgree ==
    (s_pc = "done" /\ (ProperAnswer \/ NoAnswer))
    => ( (s_out.has_in_sync /\ s_out.in_sync)
         <=> LET other == IF s_client = "curl"
                          THEN NativeCheckDeviceSync(s_reply)
                          ELSE CurlCheckDeviceSync(s_reply)
             IN other.has_in_sync /\ other.in_sync )

\* C27 (as claimed): no call of connect, disconnect or listActive ends in an
\* exception that leaves through its caller, whatever the other thread does.
C27_NeverRaises ==
    \A t \in Threads : result[t].msg # "raised"

\* positions of connect while it establishes a forward
Establishing == {"reclaim", "recheck", "cm_check", "launch_f", "launch_popen",
                 "find_pid", "lsof", "verify"}

\* C30: while a connect establishes a forward the instance has no record; a
\* record that is not direct is written only by a verification step that
\* sees the requested port bound; and when a connect returns failure the
\* instance has no record.
C30_RecordOnlyWhenActive ==
    /\ [](\A t \in Threads :
            pc[t] \in Establishing => ~active_tunnels[a_inst[t]].present)
    /\ [][/\ \A i \in Instances :
               ( /\ active_tunnels'[i] # active_tunnels[i]
                 /\ active_tunnels'[i].present
                 /\ ~active_tunnels'[i].direct )
               => \E t \in Threads :
                     /\ pc[t] = "verify"
                     /\ a_inst[t] = i
                     /\ \E p \in AllPids :
                           procs[p].st = "alive" /\ procs[p].listen = a_port[t]
          /\ \A t \in Threads :
               ( /\ pc[t] \in InCreateTunnel
                 /\ pc'[t] = "idle"
                 /\ ~result'[t].success )
               => ~active_tunnels'[a_inst[t]].present]_vars

\* C30 witness: a connect that replaced a stale record has failed on the
\* control connection, and the instance has no record
C30_Witness ==
    \E t \in Threads :
        /\ result[t].msg = "no_controlmaster"
        /\ ~result[t].success
        /\ \A i \in Instances : ~active_tunnels[i].present
        /\ \E p \in LaunchPids : procs[p].kind = "ssh" /\ procs[p].st = "killed"

\* C26 (as claimed): a sync request that ran to its end on three devices
\* whose result values are in-sync, out-of-sync and locked returns the
\* summary total 3, in_sync 2, out_of_sync 1.
C26_ThreeDeviceSummary ==
    ( /\ k_pc = "done"
      /\ k_ret.msg = "checked"
      /\ Len(k_results) = 3
      /\ k_results[1].status = "in-sync"
      /\ k_results[2].status = "out-of-sync"
      /\ k_results[3].status = "locked" )
    => ( /\ k_ret.success
         /\ k_ret.total = 3
         /\ k_ret.in_sync = 2
         /\ k_ret.out_of_sync = 1 )

\* C28: a sync request for a name that is not configured, or for an instance
\* without credentials, is over with a failure, without client and without
\* API request; a client exists only for a configured instance with
\* credentials; a connect for a name that is not configured returns failure;
\* and none of these requests changes the tunnel table or any process.
C28_ConfigurationErrorIsLocal ==
    /\ []( /\ (k_pc # "idle" /\ (k_inst \notin Instances \/ ~k_creds))
              => ( /\ k_pc = "done"
                   /\ ~k_ret.success
                   /\ ~k_client
                   /\ k_reqs = 0 )
           /\ k_client => (k_inst \in Instances /\ k_creds) )
    /\ [][ /\ (k_pc = "idle" /\ k_pc' # "idle")
              => ( /\ active_tunnels' = active_tunnels
                   /\ procs' = procs
                   /\ pc' = pc )
           /\ \A t \in Threads :
                (result'[t].msg = "unknown_instance" /\ result'[t] # result[t])
                => ( /\ ~result'[t].success
                     /\ pc[t] = "idle" /\ pc'[t] = "idle"
                     /\ active_tunnels' = active_tunnels
                     /\ procs' = procs ) ]_vars

\* C28 witness: a sync request of an instance without credentials was
\* refused while the instance has a record and its forward runs
C28_Witness ==
    /\ k_pc = "done"
    /\ k_inst \in Instances
    /\ ~k_creds
    /\ ~k_ret.success
    /\ active_tunnels[k_inst].present
    /\ IsProcessRunning(procs, active_tunnels[k_inst].pid)

\* C29 (as claimed): a sync request for an instance for which a connect has
\* succeeded, and no disconnect was called since, creates its client for the
\* endpoint that connect established.
C29_CheckUsesEstablishedEndpoint ==
    [][(k_pc = "idle" /\ k_pc' = "test" /\ h_conn[k_inst'].set)
       => k_end' = h_conn[k_inst']]_vars

\* the device's check returned a dict that says in sync
Reported(d) == b_fut[d] = "done" /\ b_val[d]

\* the devices the loop has taken whose checks did, or did not, report in sync
TakenInSync == {d \in 1..Len(b_fut) : b_got[d] /\ Reported(d)}
TakenNotInSync == {d \in 1..Len(b_fut) : b_got[d] /\ ~Reported(d)}

\* C22
\* While the loop of _check_devices_sync collects, in_sync_count is the
\* number of collected devices whose check reported in sync and
\* out_of_sync_count the number of the other collected devices, whatever the
\* order of completion; the dict returned for a list of N devices has
\* total = N, in_sync + out_of_sync = N and in_sync = the number of devices
\* whose check reported in sync.
C22_CountsAddUp ==
    /\ b_pc = "pool" =>
           /\ b_in = Cardinality(TakenInSync)
           /\ b_out = Cardinality(TakenNotInSync)
    /\ (b_pc = "done" /\ b_ret.sum.success) =>
           /\ b_ret.sum.total = Len(b_fut)
           /\ b_ret.sum.in_sync + b_ret.sum.out_of_sync = Len(b_fut)
           /\ b_ret.sum.in_sync =
                  Cardinality({d \in 1..Len(b_fut) : Reported(d)})

\* C22 witness
\* A list of at least three devices was checked, with a check that reported
\* in sync, one that reported not in sync and one that raised, and the first
\* device of the list was not the first to be collected.
C22_Witness ==
    /\ b_pc = "done"
    /\ b_ret.sum.success
    /\ Len(b_fut) >= 3
    /\ \E d \in 1..Len(b_fut) : Reported(d)
    /\ \E d \in 1..Len(b_fut) : b_fut[d] = "done" /\ ~b_val[d]
    /\ \E d \in 1..Len(b_fut) : b_fut[d] = "failed"
    /\ b_ret.devices[1].name # 1

\* the entries of the returned list that name the device
EntriesOf(d) == {j \in 1..Len(b_ret.devices) : b_ret.devices[j].name = d}

\* C23
\* When _check_devices_sync has returned for a list that is not empty, it
\* returned success = True with the counts, every device's check was started
\* and ran to its end, and the returned list has exactly one entry for each
\* device, in_sync exactly if that device's own check reported in sync: a
\* check that raised or returned an error gives in_sync = False for its
\* device and changes no other entry.
C23_FailureIsPerDevice ==
    (b_pc = "done" /\ b_fut # <<>>) =>
        /\ b_ret.sum.success
        /\ b_ret.sum.stats
        /\ b_calls = Len(b_fut)
        /\ Len(b_ret.devices) = Len(b_fut)
        /\ \A d \in 1..Len(b_fut) :
               /\ b_fut[d] \in {"done", "failed"}
               /\ Cardinality(EntriesOf(d)) = 1
               /\ \A j \in EntriesOf(d) : b_ret.devices[j].in_sync = Reported(d)

\* C23 witness
\* A batch has returned in which one device's check raised and another
\* device's check reported in sync.
C23_Witness ==
    /\ b_pc = "done"
    /\ b_ret.sum.success
    /\ \E d, e \in 1..Len(b_fut) :
           /\ b_fut[d] = "failed"
           /\ Reported(e)
           /\ \E j \in EntriesOf(e) : b_ret.devices[j].in_sync

\* C24
\* At every moment of _check_devices_sync, at most max_workers (10) device
\* checks are running, also for a list of more than max_workers devices.
C24_AtMostTenRunning ==
    Cardinality(FuturesIn({"running"})) <= max_workers

\* C24 witness
\* max_workers checks are running while another device of the list waits.
C24_Witness ==
    /\ b_pc = "pool"
    /\ Cardinality(FuturesIn({"running"})) = max_workers
    /\ FuturesIn({"queued"}) # {}

\* C25
\* After check_selected_devices_sync was called with an empty list, the call
\* has returned success = False with total 0, in_sync 0, out_of_sync 0 and
\* an empty device list, and no device check was started.
C25_EmptySelectionFails ==
    (b_op = "selected" /\ b_fut = <<>>) =>
        /\ b_pc = "done"
        /\ ~b_ret.sum.success
        /\ b_ret.sum.stats
        /\ b_ret.sum.total = 0
        /\ b_ret.sum.in_sync = 0
        /\ b_ret.sum.out_of_sync = 0
        /\ b_ret.devices = <<>>
        /\ b_calls = 0

\* C25 witness
\* check_selected_devices_sync has returned for an empty list.
C25_Witness ==
    /\ b_op = "selected"
    /\ b_pc = "done"
    /\ b_fut = <<>>
    /\ b_ret.sum.msg = "no_devices_selected"

\* the thread executes a step of a connect or disconnect it is in
InCall(t) == pc[t] # "idle" /\ Moves(t)

\* the ssh processes that forward for another instance than the thread's and
\* neither hold nor were started for the port of the thread's call or the
\* port of the record of the thread's instance
ForwardsElsewhere(t) ==
    {p \in AllPids :
        /\ Alive(procs, p)
        /\ procs[p].kind = "ssh"
        /\ procs[p].inst \in Instances \ {a_inst[t]}
        /\ procs[p].listen \notin {a_port[t], active_tunnels[a_inst[t]].local_port}
        /\ procs[p].want \notin {a_port[t], active_tunnels[a_inst[t]].local_port}}

\* C32
\* No step of a connect or disconnect for one instance changes the record of
\* another instance or ends an ssh process that forwards for another
\* instance on another local port; the step with which the view records a
\* direct connection changes the record of one instance only and no process.
C32_OtherInstancesUntouched ==
    [][/\ \A t \in Threads : InCall(t) =>
              /\ \A i \in Instances \ {a_inst[t]} :
                     active_tunnels'[i] = active_tunnels[i]
              /\ \A p \in ForwardsElsewhere(t) : procs'[p] = procs[p]
       /\ \A t \in Threads :
              (pc[t] = "idle" /\ pc'[t] = "idle" /\ result'[t].msg = "direct"
                  /\ result'[t] # result[t])
              => /\ procs' = procs
                 /\ \A i, j \in Instances :
                        (active_tunnels'[i] # active_tunnels[i]
                            /\ active_tunnels'[j] # active_tunnels[j]) => i = j]_vars

\* C32 witness
\* A disconnect has ended the forward of one instance while the other
\* instance has its record and its forward on another port runs.
C32_Witness ==
    \E t \in Threads, p, q \in LaunchPids :
        /\ result[t].msg = "closed"
        /\ procs[p].kind = "ssh" /\ procs[p].st = "killed"
        /\ Alive(procs, q) /\ procs[q].kind = "ssh"
        /\ procs[q].inst # procs[p].inst
        /\ procs[q].listen # NoPort
        /\ active_tunnels[procs[q].inst].present
        /\ active_tunnels[procs[q].inst].pid = q

\* C38 (as claimed)
\* When close_tunnel returns success for a record with a pid above 0, the
\* process with that pid is not alive.
C38_ClosedMeansTerminated ==
    [][\A t \in Threads :
        (pc[t] = "cl_del" /\ Returns(t) /\ result'[t].success /\ l_pid[t] > 0)
        => ~Alive(procs', l_pid[t])]_vars

\* C40
\* When create_tunnel for jump01 finds no control connection (ssh -O check
\* exits non-zero), the call returns failure with the message that asks to
\* connect first; the step starts no process and stores no record, and on
\* return the instance has no record.
C40_NoMasterNoTunnel ==
    [][\A t \in Threads :
        (pc[t] = "cm_check" /\ Returns(t))
        => /\ a_host[t] = "jump01"
           /\ ~result'[t].success
           /\ result'[t].msg = "no_controlmaster"
           /\ procs' = procs
           /\ active_tunnels' = active_tunnels
           /\ ~active_tunnels'[a_inst[t]].present]_vars

\* C40 witness
\* A connect through jump01 has returned for want of a control connection.
C40_Witness ==
    \E t \in Threads :
        /\ pc[t] = "idle"
        /\ result[t].msg = "no_controlmaster"
        /\ ~result[t].success
        /\ \A i \in Instances : ~active_tunnels[i].present
        /\ \A p \in LaunchPids : procs[p].kind = "none"

\* C31
\* The verification loop is at its 15th port check at most and the search
\* for the pid at its 5th attempt at most, and every create_tunnel call that
\* was started returns with a success or failure result, also when the port
\* is never bound.
C31_ConnectTerminates ==
    /\ [](\A t \in Threads :
            /\ pc[t] = "verify" => l_n[t] < max_attempts
            /\ pc[t] = "find_pid" => l_n[t] < pid_attempts)
    /\ \A t \in Threads :
          (pc[t] \in InCreateTunnel)
              ~> (pc[t] = "idle" /\ result[t].msg # "none")

\* C31 witness
\* A connect has returned the bind failure while nothing is bound to its
\* port: the port was never seen in use during the 15 checks.
C31_Witness ==
    \E t \in Threads :
        /\ pc[t] = "idle"
        /\ result[t].msg = "bind_failed"
        /\ ~IsPortInUse(procs, 1)
        /\ \E p \in LaunchPids : procs[p].st = "killed"

\* the steps the future of a device's check can take
FutureSteps == {<<"queued", "running">>, <<"running", "done">>, <<"running", "failed">>}

\* C33
\* While _check_devices_sync runs, the check of a device is started only
\* from the queue and ends only once, each start being one call of
\* check_device_sync; when it has returned, as many checks were started as
\* the list has devices, every device's check has ended, and the returned
\* list has exactly one entry with each device's name.
C33_EachDeviceOnce ==
    /\ [](b_pc = "done" /\ b_ret.sum.success =>
            /\ b_calls = Len(b_fut)
            /\ Len(b_ret.devices) = Len(b_fut)
            /\ \A d \in 1..Len(b_fut) :
                   /\ b_fut[d] \in {"done", "failed"}
                   /\ Cardinality(EntriesOf(d)) = 1)
    /\ [][b_pc = "pool" =>
            /\ Len(b_fut') = Len(b_fut)
            /\ \A d \in 1..Len(b_fut) :
                   b_fut'[d] # b_fut[d] => <<b_fut[d], b_fut'[d]>> \in FutureSteps
            /\ b_calls' - b_calls =
                   Cardinality({d \in 1..Len(b_fut) :
                                   b_fut[d] = "queued" /\ b_fut'[d] = "running"})]_vars

\* C33 witness
\* A batch of several devices has returned after as many checks as devices,
\* one of which raised and one of which did not report in sync.
C33_Witness ==
    /\ b_pc = "done"
    /\ b_ret.sum.success
    /\ Len(b_fut) >= 2
    /\ b_calls = Len(b_fut)
    /\ \E d \in 1..Len(b_fut) : b_fut[d] = "failed"
    /\ \E d \in 1..Len(b_fut) : b_fut[d] = "done" /\ ~b_val[d]

\* no check runs for ever
EveryCheckEnds ==
    \A d \in 1..PoolDevices : []<>~(b_pc = "pool" /\ d \in FuturesIn({"running"}))

\* the checks of all devices but the first have ended
OthersChecked ==
    /\ Len(b_fut) = PoolDevices
    /\ \A d \in 2..PoolDevices : b_fut[d] \in {"done", "failed"}

\* C34
\* For a list of more devices than the executor has workers: if no device's
\* check runs for ever, _check_devices_sync returns; and even if the check
\* of the first device never ends, the checks of all other devices end.
C34_BatchReturns ==
    /\ EveryCheckEnds => (b_pc = "pool" ~> b_pc = "done")
    /\ b_pc = "pool" ~> OthersChecked

\* C34 witness
\* The call has returned the summary of a list longer than the worker cap.
C34_Witness ==
    /\ b_pc = "done"
    /\ b_ret.sum.success
    /\ Len(b_fut) > max_workers
    /\ b_ret.sum.total = Len(b_fut)
    /\ b_calls = Len(b_fut)

\* C39
\* When get_all_devices has failed, check_all_devices_sync of NSOClientCurl
\* has returned success = False with total, in_sync and out_of_sync 0 and
\* an empty device list, without submitting or starting a device check; when
\* get_devices has failed, check_all_devices_sync of NSOClient has returned
\* success = False after its two requests (connection test and listing) and
\* without a device's result.
C39_ListingFailureStopsCheck ==
    /\ b_listed = "failed" =>
           /\ b_pc = "done"
           /\ ~b_ret.sum.success
           /\ b_ret.sum.stats
           /\ b_ret.sum.total = 0
           /\ b_ret.sum.in_sync = 0
           /\ b_ret.sum.out_of_sync = 0
           /\ b_ret.devices = <<>>
           /\ b_fut = <<>>
           /\ b_calls = 0
    /\ k_ret.msg = "list_failed" =>
           /\ k_pc = "done"
           /\ ~k_ret.success
           /\ k_results = <<>>
           /\ k_reqs = 2

\* C39 witness
\* Both clients have returned from checkAll after a failed listing.
C39_Witness ==
    /\ b_listed = "failed"
    /\ b_pc = "done"
    /\ k_pc = "done"
    /\ k_ret.msg = "list_failed"

(* ------------------------------- C37 ----------------------------------- *)
\* C37: test_remote_reachability always returns a result and never raises:
\* reachable is true exactly when the probe exits with status 0; on a
\* non-zero exit the message is the refused one if the output says refused,
\* otherwise the timed-out one if it says so, otherwise the generic one; a
\* timeout of the probe and any exception give reachable false.
C37_ReachabilityResult ==
    r_pc = "done" =>
        /\ r_out # NoVerdict
        /\ r_out.reachable = (r_probe.end = "exit" /\ r_probe.code = 0)
        /\ (r_probe.end = "exit" /\ r_probe.code # 0) =>
               /\ r_probe.refused => r_out.msg = "refused"
               /\ (~r_probe.refused /\ r_probe.timed) => r_out.msg = "timed_out"
               /\ (~r_probe.refused /\ ~r_probe.timed) =>
                      r_out.msg = "cannot_reach"
        /\ r_probe.end = "timeout" => r_out = Verdict(FALSE, "probe_timeout")
        /\ r_probe.end = "raised" => r_out = Verdict(FALSE, "error")

\* a probe that failed with both words in its output was called refused
C37_Witness ==
    /\ r_pc = "done"
    /\ r_probe.end = "exit" /\ r_probe.code # 0
    /\ r_probe.refused /\ r_probe.timed
    /\ r_out = Verdict(FALSE, "refused")

(* ------------------------------- C36 ----------------------------------- *)
\* the enumeration of sockets failed and the call has returned
AfterFailedEnumeration == u_pc = "done" /\ u_access # "ok"

\* C36: when enumerating sockets fails, _is_port_in_use returns false exactly
\* when a bind on the port succeeds and true exactly when it fails.
C36_BindTestDecides ==
    AfterFailedEnumeration => (u_out = ~BindSucceeds(u_sock))

(* ------------------------------- C35 ----------------------------------- *)
\* a step of _kill_process that sends the kill signal
SendsKill == Len(q_sent') > Len(q_sent) /\ q_sent'[Len(q_sent')] = "KILL"

\* C35: _kill_process sends the termination signal first, waits the grace
\* period, and sends the kill signal only if the process has not exited by
\* then; for a pid <= 0 and for a process that does not exist or has ended
\* it sends nothing, and no exception leaves the call.
C35_GracefulThenForce ==
    /\ [](/\ q_sent \in {<<>>, <<"TERM">>, <<"TERM", "KILL">>}
          /\ (q_pid <= 0 \/ q_proc = "absent") => q_sent = <<>>
          /\ q_pc \in {"wait", "kill"} => q_sent = <<"TERM">>
          /\ q_pc = "kill" => q_grace
          /\ q_err \in {"none", "NoSuchProcess", "AccessDenied"})
    /\ [][/\ SendsKill =>
               (q_pc = "kill" /\ q_grace /\ q_proc = "alive"
                   /\ q_sent = <<"TERM">>)
          /\ (q_pc = "kill" /\ q_proc = "alive" /\ q_pc' = "done") =>
               q_sent' = <<"TERM", "KILL">>
          /\ (q_pc = "wait" /\ q_proc = "exited" /\ q_pc' # "wait") =>
               (q_pc' = "done" /\ q_sent' = <<"TERM">>)
          /\ (q_pc = "lookup" /\ q_proc = "exited" /\ q_pc' # "lookup") =>
               (q_pc' = "done" /\ q_sent' = <<>>)]_vars

\* a process that did not exit in the grace period was killed
C35_Witness ==
    /\ q_pc = "done"
    /\ q_pid > 0
    /\ q_grace
    /\ q_sent = <<"TERM", "KILL">>
    /\ q_proc = "exited"

====
